---- MODULE Spec2Model ----
(***************************************************************************)
(* A state-machine model of wezterm-gui/src/glyphcache.rs: the glyph       *)
(* cache, the image/animation cache, the line and custom glyph caches and  *)
(* the texture atlas they allocate into.                                   *)
(*                                                                         *)
(* Modelling conventions                                                   *)
(*  - f64 values (scales, PixelLength) are exact rationals <<n, d>>, d > 0, *)
(*    kept in lowest terms, so that `scale != 1.0` is n # d.               *)
(*  - A Sprite is the number of the atlas slot it was allocated in (1..);  *)
(*    NoSprite (0) is Option::None.  Atlas::clear() restarts the slots.    *)
(*  - Instants and Durations are integers in units of 50 ms.               *)
(*  - `last` records the call that produced the current state (its         *)
(*    arguments, its outcome and the values of its local variables);       *)
(*    `hist` counts what happened since the last clear().                  *)
(***************************************************************************)
EXTENDS Integers, Sequences, FiniteSets, TLC

VARIABLES
    glyph_cache,    \* GlyphCache::glyph_cache : GlyphKey -> CachedGlyph
    atlas,          \* GlyphCache::atlas       : [next, left]
    image_cache,    \* GlyphCache::image_cache : [order, map] (LRU, MRU first)
    frame_cache,    \* GlyphCache::frame_cache : <<id, frame>> -> Sprite
    line_glyphs,    \* GlyphCache::line_glyphs : LineKey -> Sprite
    custom_glyphs,  \* GlyphCache::custom_glyphs : CustomGlyphKey -> Sprite
    now,            \* the clock read by Instant::now()
    due,            \* the caller's copy of the last next-due-instant per image
    shown,          \* the frame each animated image was on when last resolved
    last,           \* the call that led to this state
    hist,           \* what happened since the last clear()
    arg,            \* input of the pure function under study
    res             \* its result

vars == <<glyph_cache, atlas, image_cache, frame_cache, line_glyphs,
          custom_glyphs, now, due, shown, last, hist, arg, res>>

cacheVars == <<glyph_cache, atlas, image_cache, frame_cache, line_glyphs,
               custom_glyphs, now, due, shown, last, hist>>

(***************************************************************************)
(* Bounds of the model                                                     *)
(***************************************************************************)
AtlasCap == 3
MaxGlyphs == 2
MaxTime == 6
HashMod == 3
MaxCount == 2
MaxCellWidth == 4
MaxCellHeight == 16
MaxThickness == 2
MaxMargin == 8

NoSprite == 0
NoInstant == -1

EmptyMap == [x \in {} |-> 0]

Min(a, b) == IF a < b THEN a ELSE b

Bump(n) == Min(n + 1, MaxCount)

(***************************************************************************)
(* f64 arithmetic, exact                                                   *)
(***************************************************************************)
RECURSIVE Gcd(_, _)
Gcd(a, b) == IF b = 0 THEN a ELSE Gcd(b, a % b)

Abs(a) == IF a < 0 THEN -a ELSE a

Norm(n, d) ==
    LET g == Gcd(Abs(n), d)
    IN  IF n = 0 THEN <<0, 1>> ELSE <<n \div g, d \div g>>

FDiv(a, b) == Norm(a[1] * b[2], a[2] * b[1])
FMul(a, b) == Norm(a[1] * b[1], a[2] * b[2])
FGt(a, b) == a[1] * b[2] > b[1] * a[2]
FGe(a, b) == a[1] * b[2] >= b[1] * a[2]
F(n) == <<n, 1>>
FOne == <<1, 1>>
FZero == <<0, 1>>

(***************************************************************************)
(* GlyphKey / BorrowedGlyphKey / GlyphKeyTrait                             *)
(*                                                                         *)
(* A &TextStyle is [loc, val]: where it points and the TextStyle there.    *)
(***************************************************************************)
Styles == {"regular", "bold"}
StyleAddrs == {"a1", "a2", "a3"}

StyleAt(addr) == IF addr = "a3" THEN "bold" ELSE "regular"

StyleRef(addr) == [loc |-> addr, val |-> StyleAt(addr)]

Deref(r) == r.val

StyleCode(s) == IF s = "regular" THEN 1 ELSE 2
BoolCode(b) == IF b THEN 1 ELSE 0

\* std::hash::Hasher fed a sequence of words
RECURSIVE HashWords(_)
HashWords(ws) ==
    IF ws = <<>> THEN 7
    ELSE (HashWords(SubSeq(ws, 1, Len(ws) - 1)) * 31 + ws[Len(ws)]) % HashMod

\* #[derive(Hash)] for GlyphKey
HashGlyphKey(k) ==
    HashWords(<<k.font_idx, k.glyph_pos, StyleCode(k.style),
                BoolCode(k.followed_by_space)>>)

\* #[derive(Hash)] for BorrowedGlyphKey: a reference hashes as its referent
HashBorrowedGlyphKey(b) ==
    HashWords(<<b.font_idx, b.glyph_pos, StyleCode(Deref(b.style)),
                BoolCode(b.followed_by_space)>>)

\* (variant: the references are compared by where they point)
EqBorrowedGlyphKey_ByAddress(a, b) ==
    /\ a.font_idx = b.font_idx
    /\ a.glyph_pos = b.glyph_pos
    /\ a.style.loc = b.style.loc
    /\ a.followed_by_space = b.followed_by_space

\* #[derive(PartialEq)] for BorrowedGlyphKey: references compare by referent
EqBorrowedGlyphKey(a, b) ==
    /\ a.font_idx = b.font_idx
    /\ a.glyph_pos = b.glyph_pos
    /\ Deref(a.style) = Deref(b.style)
    /\ a.followed_by_space = b.followed_by_space

\* BorrowedGlyphKey::to_owned
to_owned(b) ==
    [font_idx |-> b.font_idx, glyph_pos |-> b.glyph_pos,
     style |-> Deref(b.style), followed_by_space |-> b.followed_by_space]

\* impl GlyphKeyTrait for GlyphKey
key_GlyphKey(k) ==
    [font_idx |-> k.font_idx, glyph_pos |-> k.glyph_pos,
     style |-> [loc |-> "key", val |-> k.style],
     followed_by_space |-> k.followed_by_space]

\* impl GlyphKeyTrait for BorrowedGlyphKey
key_BorrowedGlyphKey(b) == b

\* impl PartialEq / Hash for dyn GlyphKeyTrait, stored key against query
DynEq(k, q) == EqBorrowedGlyphKey(key_GlyphKey(k), key_BorrowedGlyphKey(q))
DynHash(q) == HashBorrowedGlyphKey(key_BorrowedGlyphKey(q))

\* HashMap::get(&key as &dyn GlyphKeyTrait): the stored keys in the query's
\* bucket that compare equal to it
GlyphCacheFind(cache, q) ==
    {k \in DOMAIN cache : HashGlyphKey(k) = DynHash(q) /\ DynEq(k, q)}

(***************************************************************************)
(* Atlas (external): allocate / clear                                      *)
(***************************************************************************)
AtlasNew == [next |-> 1, left |-> AtlasCap]

\* Atlas::allocate: fits says whether the image fits in the free space
AtlasAllocate(atl, fits) ==
    IF fits /\ atl.left > 0
    THEN [ok |-> TRUE, sprite |-> atl.next,
          atlas |-> [next |-> atl.next + 1, left |-> atl.left - 1]]
    ELSE [ok |-> FALSE, sprite |-> NoSprite, atlas |-> atl]

(***************************************************************************)
(* GlyphCache::load_glyph                                                  *)
(***************************************************************************)
ZeroGlyph ==
    [has_color |-> FALSE, x_offset |-> FZero, y_offset |-> FZero,
     bearing_x |-> FZero, bearing_y |-> FZero, texture |-> NoSprite,
     scale |-> FZero]

\* what `last` shows of the rasterizer when it was not asked, or failed
NoRaster ==
    [ok |-> FALSE, width |-> 0, height |-> 0, bearing_x |-> 0, bearing_y |-> 0,
     has_color |-> FALSE]

\* let y_scale = base_metrics.cell_height / idx_metrics.cell_height
YScale(base, idx) == FDiv(F(base.cell_height), F(idx.cell_height))

\* let x_scale = base_metrics.cell_width / (idx_metrics.cell_width / num_cells)
XScale(base, idx, num_cells) ==
    FDiv(F(base.cell_width), FDiv(F(idx.cell_width), F(num_cells)))

\* let is_square_or_wide = aspect >= 0.9
IsSquareOrWide(idx) ==
    FGe(FDiv(F(idx.cell_height), F(idx.cell_width)), <<9, 10>>)

\* (variant: WhenFollowedBySpace is treated like Always)
AllowWidthOverflow_IgnoreSpace(idx, cfg, followed_by_space) ==
    IF IsSquareOrWide(idx) THEN cfg # "Never" ELSE FALSE

\* let allow_width_overflow = ...
AllowWidthOverflow(idx, cfg, followed_by_space) ==
    IF IsSquareOrWide(idx)
    THEN CASE cfg = "Never" -> FALSE
           [] cfg = "Always" -> TRUE
           [] cfg = "WhenFollowedBySpace" -> followed_by_space
    ELSE FALSE

\* (variant: the width test is >= instead of >)
ChooseScale_Ge(base, idx, num_cells, glyph_width, allow) ==
    IF /\ ~allow
       /\ FGe(FMul(YScale(base, idx), F(glyph_width)),
              FMul(F(base.cell_width), F(num_cells)))
    THEN XScale(base, idx, num_cells)
    ELSE YScale(base, idx)

\* let scale = if !allow_width_overflow && y_scale * glyph.width > ... 
ChooseScale(base, idx, num_cells, glyph_width, allow) ==
    IF /\ ~allow
       /\ FGt(FMul(YScale(base, idx), F(glyph_width)),
              FMul(F(base.cell_width), F(num_cells)))
    THEN XScale(base, idx, num_cells)
    ELSE YScale(base, idx)

LoadErr(atl, failed_at) ==
    [ok |-> FALSE, glyph |-> ZeroGlyph, atlas |-> atl,
     rasterized |-> failed_at \in {"metrics_for_idx", "allocate"},
     allocs |-> 0, scale |-> FZero, allow |-> FALSE, resampled |-> FALSE,
     failed_at |-> failed_at]

\* (variant: a zero-height glyph is rendered like any other)
IsWhitespace_WidthOnly(glyph) == glyph.width = 0

\* if glyph.width == 0 || glyph.height == 0
IsWhitespace(glyph) == glyph.width = 0 \/ glyph.height = 0

\* the body of load_glyph once the font answered: env.base, env.raster and
\* env.idx are what metrics(), rasterize_glyph() and metrics_for_idx() gave
\* (variant: the chosen scale is stored although the image was resampled)
StoredScale_Keep(scale) == scale

\* let (scale, raw_im) = if scale != 1.0 { (1.0, raw_im.scale_by(scale)) }
\*                        else { (scale, raw_im) }
StoredScale(scale) == IF scale # FOne THEN FOne ELSE scale

LoadGlyphBody(info, followed_by_space, env, atl) ==
    LET glyph == env.raster
        allow == AllowWidthOverflow(env.idx, env.cfg, followed_by_space)
        scale == ChooseScale(env.base, env.idx, info.num_cells, glyph.width, allow)
        tex   == AtlasAllocate(atl, env.fits)
    IN  IF IsWhitespace(glyph)
        THEN [ok |-> TRUE,
              glyph |-> [has_color |-> glyph.has_color,
                         texture |-> NoSprite,
                         x_offset |-> FMul(F(info.x_offset), scale),
                         y_offset |-> FMul(F(info.y_offset), scale),
                         bearing_x |-> FZero,
                         bearing_y |-> FZero,
                         scale |-> scale],
              atlas |-> atl, rasterized |-> TRUE, allocs |-> 0,
              scale |-> scale, allow |-> allow, resampled |-> FALSE,
              failed_at |-> "none"]
        ELSE IF ~tex.ok
        THEN [LoadErr(atl, "allocate") EXCEPT !.scale = scale, !.allow = allow,
                                              !.resampled = (scale # FOne)]
        ELSE [ok |-> TRUE,
              glyph |-> [has_color |-> glyph.has_color,
                         texture |-> tex.sprite,
                         x_offset |-> FMul(F(info.x_offset), scale),
                         y_offset |-> FMul(F(info.y_offset), scale),
                         bearing_x |-> FMul(F(glyph.bearing_x), scale),
                         bearing_y |-> FMul(F(glyph.bearing_y), scale),
                         scale |-> StoredScale(scale)],
              atlas |-> tex.atlas, rasterized |-> TRUE, allocs |-> 1,
              scale |-> scale, allow |-> allow, resampled |-> (scale # FOne),
              failed_at |-> "none"]

\* fn load_glyph: the three `?` of the font block come first
LoadGlyph(info, followed_by_space, env, atl) ==
    IF ~env.font_ok THEN LoadErr(atl, "resolve_font")
    ELSE IF ~env.raster.ok THEN LoadErr(atl, "rasterize_glyph")
    ELSE IF ~env.idx.ok THEN LoadErr(atl, "metrics_for_idx")
    ELSE LoadGlyphBody(info, followed_by_space, env, atl)

(***************************************************************************)
(* HashMap helpers                                                         *)
(***************************************************************************)
MapPut(m, k, v) == [x \in DOMAIN m \cup {k} |-> IF x = k THEN v ELSE m[x]]

MapGet(m, k, dflt) == IF k \in DOMAIN m THEN m[k] ELSE dflt

HistNew ==
    [glyph_allocs |-> EmptyMap, glyph_returns |-> EmptyMap,
     glyph_loads |-> EmptyMap, frame_allocs |-> EmptyMap, line_allocs |-> EmptyMap,
     line_made_by |-> EmptyMap]

(***************************************************************************)
(* GlyphCache::cached_glyph                                                *)
(***************************************************************************)
\* (variant: the entry is inserted before the load is known to have succeeded)
GlyphCacheAfterLoad_InsertAlways(cache, k, r) == MapPut(cache, k, r.glyph)

\* let glyph = self.load_glyph(..)?; self.glyph_cache.insert(key.to_owned(), ..)
GlyphCacheAfterLoad(cache, k, r) ==
    IF r.ok THEN MapPut(cache, k, r.glyph) ELSE cache

\* (variant: the cache is not consulted: every call loads)
GlyphCacheLookup_AlwaysMiss(cache, q) == {}

\* if let Some(entry) = self.glyph_cache.get(&key as &dyn GlyphKeyTrait)
GlyphCacheLookup(cache, q) == GlyphCacheFind(cache, q)

cached_glyph(info, addr, followed_by_space, env) ==
    LET key == [font_idx |-> info.font_idx, glyph_pos |-> info.glyph_pos,
                style |-> StyleRef(addr),
                followed_by_space |-> followed_by_space]
        owned == to_owned(key)
    IN  \E found \in {GlyphCacheLookup(glyph_cache, key)},
           r \in {LoadGlyph(info, followed_by_space, env, atlas)} :
    LET call == [op |-> "cached_glyph", key |-> key, info |-> info,
                 raster |-> IF found = {} /\ env.font_ok
                            THEN env.raster ELSE NoRaster]
    IN  IF found # {}
        THEN LET entry == glyph_cache[CHOOSE k \in found : TRUE]
             IN  /\ last' = call @@ [ok |-> TRUE, hit |-> TRUE, result |-> entry,
                                rasterized |-> FALSE, allocs |-> 0,
                                scale |-> FZero, allow |-> FALSE,
                                resampled |-> FALSE, failed_at |-> "none"]
                 /\ hist' = [hist EXCEPT !.glyph_returns =
                        MapPut(@, owned, MapGet(@, owned, {}) \cup {entry})]
                 /\ UNCHANGED <<glyph_cache, atlas>>
        ELSE /\ r.ok => Cardinality(DOMAIN glyph_cache) < MaxGlyphs
             /\ glyph_cache' = GlyphCacheAfterLoad(glyph_cache, owned, r)
             /\ atlas' = r.atlas
             /\ last' = call @@ [ok |-> r.ok, hit |-> FALSE, result |-> r.glyph,
                                 rasterized |-> r.rasterized, allocs |-> r.allocs,
                                 scale |-> r.scale, allow |-> r.allow,
                                 resampled |-> r.resampled,
                                 failed_at |-> r.failed_at]
             /\ hist' = [hist EXCEPT
                    !.glyph_allocs =
                        IF r.allocs > 0
                        THEN MapPut(@, owned, Bump(MapGet(@, owned, 0)))
                        ELSE @,
                    !.glyph_returns =
                        IF r.ok
                        THEN MapPut(@, owned, MapGet(@, owned, {}) \cup {r.glyph})
                        ELSE @,
                    !.glyph_loads =
                        IF r.ok
                        THEN MapPut(@, owned, [width |-> env.raster.width,
                                               height |-> env.raster.height,
                                               style_at |-> addr])
                        ELSE @]

CachedGlyphStep(info, addr, followed_by_space, env) ==
    /\ cached_glyph(info, addr, followed_by_space, env)
    /\ UNCHANGED <<image_cache, frame_cache, line_glyphs, custom_glyphs,
                   now, due, shown, arg, res>>

(***************************************************************************)
(* GlyphCache::clear                                                       *)
(***************************************************************************)
\* (variant: the commented-out image_cache.clear() is live)
ImageCacheAfterClear_Cleared(ic) == [order |-> <<>>, map |-> EmptyMap]

\* // self.image_cache.clear(); - relatively expensive to re-populate
ImageCacheAfterClear(ic) == ic

clear ==
    /\ atlas' = AtlasNew
    /\ image_cache' = ImageCacheAfterClear(image_cache)
    /\ frame_cache' = EmptyMap
    /\ glyph_cache' = EmptyMap
    /\ line_glyphs' = EmptyMap
    /\ custom_glyphs' = EmptyMap
    /\ hist' = HistNew
    /\ last' = [op |-> "clear", ok |-> TRUE,
                dropped |-> <<Cardinality(DOMAIN glyph_cache),
                              Cardinality(DOMAIN frame_cache),
                              Cardinality(DOMAIN line_glyphs),
                              Cardinality(DOMAIN custom_glyphs),
                              atlas.next - 1>>]
    /\ UNCHANGED <<now, due, shown, arg, res>>

(***************************************************************************)
(* Image files and DecodedImage                                            *)
(*                                                                         *)
(* An ImageData is identified by its id; its bytes never change, so what   *)
(* the decoders make of it is a function of the id.  A file is             *)
(* [format, frames, multi_ok, single_ok]: what image::guess_format says    *)
(* ("gif", "png", "apng" for a PNG whose is_apng() holds, "other", or      *)
(* "unknown" when guess_format fails), the frame durations the animation   *)
(* decoder yields, whether that decoder succeeds, and whether              *)
(* image::load_from_memory succeeds.                                       *)
(***************************************************************************)
LruCapacity == 16

BackgroundIds == 101 .. 100 + (LruCapacity - 1)

ImageFile(id) ==
    CASE id = 1 -> [format |-> "gif", frames |-> <<2, 2, 2>>, multi_ok |-> TRUE, single_ok |-> TRUE]
      [] id = 2 -> [format |-> "png", frames |-> <<>>, multi_ok |-> FALSE, single_ok |-> TRUE]
      [] id = 3 -> [format |-> "unknown", frames |-> <<>>, multi_ok |-> FALSE, single_ok |-> FALSE]
      [] id = 4 -> [format |-> "gif", frames |-> <<>>, multi_ok |-> FALSE, single_ok |-> TRUE]
      [] id = 5 -> [format |-> "gif", frames |-> <<>>, multi_ok |-> FALSE, single_ok |-> FALSE]
      [] id = 6 -> [format |-> "gif", frames |-> <<>>, multi_ok |-> TRUE, single_ok |-> TRUE]
      [] id = 7 -> [format |-> "apng", frames |-> <<1>>, multi_ok |-> TRUE, single_ok |-> TRUE]
      [] id = 8 -> [format |-> "apng", frames |-> <<1, 0>>, multi_ok |-> TRUE, single_ok |-> TRUE]
      [] id = 9 -> [format |-> "apng", frames |-> <<>>, multi_ok |-> FALSE, single_ok |-> TRUE]
      [] OTHER  -> [format |-> "other", frames |-> <<>>, multi_ok |-> FALSE, single_ok |-> TRUE]

\* an ImageFrame is [duration, image]; the image is named by where it came from
\* DecodedImage::placeholder
placeholder(t) ==
    [ok |-> TRUE, frame_start |-> t, current_frame |-> 0,
     frames |-> << [duration |-> 0, image |-> "placeholder"] >>]

\* DecodedImage::with_frames
with_frames(durations, t) ==
    [ok |-> TRUE, frame_start |-> t, current_frame |-> 0,
     frames |-> [i \in 1 .. Len(durations) |->
                    [duration |-> durations[i], image |-> "frame"]]]

\* DecodedImage::with_single
with_single(file, t) ==
    IF file.single_ok
    THEN [ok |-> TRUE, frame_start |-> t, current_frame |-> 0,
          frames |-> << [duration |-> 0, image |-> "single"] >>]
    ELSE [ok |-> FALSE, frame_start |-> t, current_frame |-> 0, frames |-> <<>>]

\* (variant: a GIF whose frames do not decode is a failed decode)
GifDecode_NoFallback(file, t) ==
    IF file.multi_ok THEN with_frames(file.frames, t)
    ELSE [ok |-> FALSE, frame_start |-> t, current_frame |-> 0, frames |-> <<>>]

\* ImageFormat::Gif => GifDecoder::new(..).and_then(collect_frames)
\*     .and_then(with_frames).or_else(|err| Self::with_single(image_data))
GifDecode(file, t) ==
    IF file.multi_ok THEN with_frames(file.frames, t)
    ELSE with_single(file, t)

\* DecodedImage::load
DecodedImage_load(file, t) ==
    CASE file.format = "unknown" ->
            [ok |-> FALSE, frame_start |-> t, current_frame |-> 0, frames |-> <<>>]
      [] file.format = "gif" -> GifDecode(file, t)
      [] file.format = "apng" ->
            IF file.multi_ok THEN with_frames(file.frames, t)
            ELSE [ok |-> FALSE, frame_start |-> t, current_frame |-> 0,
                  frames |-> <<>>]
      [] OTHER -> with_single(file, t)

\* (variant: a failed decode is passed on instead of replaced)
LoadOrPlaceholder_NoFallback(id, t) == DecodedImage_load(ImageFile(id), t)

\* DecodedImage::load(image_data).or_else(|e| Ok(DecodedImage::placeholder()))
LoadOrPlaceholder(id, t) ==
    LET d == DecodedImage_load(ImageFile(id), t)
    IN  IF d.ok THEN d ELSE placeholder(t)

(***************************************************************************)
(* LruCache<usize, CachedImage>  (external crate `lru`)                    *)
(***************************************************************************)
SingleFrame ==
    [tag |-> "SingleFrame", frame_start |-> NoInstant, current_frame |-> 0,
     frames |-> <<>>, decoded_at |-> NoInstant]

Animation(decoded) ==
    [tag |-> "Animation", frame_start |-> decoded.frame_start,
     current_frame |-> decoded.current_frame, frames |-> decoded.frames,
     decoded_at |-> decoded.frame_start]

LruNew == [order |-> <<>>, map |-> EmptyMap]

SeqRemove(s, x) == SelectSeq(s, LAMBDA y : y # x)

\* (variant: a lookup that does not promote, like LruCache::peek_mut)
LruTouch_NoPromote(ic, id) == ic

\* LruCache::get_mut: a hit makes the id the most recently used
LruTouch(ic, id) ==
    IF id \in DOMAIN ic.map
    THEN [ic EXCEPT !.order = <<id>> \o SeqRemove(ic.order, id)]
    ELSE ic

\* LruCache::put
LruPut(ic, id, v) ==
    IF id \in DOMAIN ic.map
    THEN [order |-> <<id>> \o SeqRemove(ic.order, id),
          map |-> [ic.map EXCEPT ![id] = v]]
    ELSE IF Len(ic.order) >= LruCapacity
    THEN LET victim == ic.order[Len(ic.order)]
             kept == SubSeq(ic.order, 1, Len(ic.order) - 1)
         IN  [order |-> <<id>> \o kept,
              map |-> [x \in (DOMAIN ic.map \ {victim}) \cup {id} |->
                          IF x = id THEN v ELSE ic.map[x]]]
    ELSE [order |-> <<id>> \o ic.order, map |-> MapPut(ic.map, id, v)]

(***************************************************************************)
(* GlyphCache::cached_image                                                *)
(***************************************************************************)
\* (variant: the animation restarts instead of stepping)
NextFrame_Restart(current_frame, len) == 0

\* decoded.current_frame += 1; if decoded.current_frame >= len { = 0 }
NextFrame(current_frame, len) ==
    IF current_frame + 1 >= len THEN 0 ELSE current_frame + 1

\* (variant: every frame is given the duration of the first)
NextDue_FirstFrame(frame_start, frames, current_frame) ==
    frame_start + frames[1].duration

\* decoded.frame_start + decoded.frames[decoded.current_frame].duration
NextDue(frame_start, frames, current_frame) ==
    frame_start + frames[current_frame + 1].duration

\* (variant: the frame is still shown at the instant it is due)
FrameElapsed_Strict(t, next_due) == t > next_due

\* if now >= next_due
FrameElapsed(t, next_due) == t >= next_due

\* (variant: any decoded frame list is stored as an Animation)
IsAnimation_Any(frames) == Len(frames) >= 1

\* if decoded.frames.len() > 1
IsAnimation(frames) == Len(frames) > 1

\* the calls that fall through to the decode at the end of cached_image
TakesFullMiss(ic, fc, id) ==
    \/ id \notin DOMAIN ic.map
    \/ /\ ic.map[id].tag = "SingleFrame"
       /\ <<id, 0>> \notin DOMAIN fc

ImageOut(ic, fc, atl, outcome, sprite, next, path, advanced, allocated, image) ==
    [image_cache |-> ic, frame_cache |-> fc, atlas |-> atl, outcome |-> outcome,
     sprite |-> sprite, next |-> next, path |-> path, advanced |-> advanced,
     allocated |-> allocated, image |-> image]

\* (variant: storing a frame sprite drops the frame sprites of other images)
FrameInsert_DropOthers(fc, k, sprite) ==
    [x \in {y \in DOMAIN fc : y[1] = k[1]} \cup {k} |->
        IF x = k THEN sprite ELSE fc[x]]

\* self.frame_cache.insert((id, frame), sprite)
FrameInsert(fc, k, sprite) == MapPut(fc, k, sprite)

\* CachedImage::SingleFrame with the sprite of frame 0 still cached
SingleFrameHit(ic, fc, atl, id) ==
    ImageOut(ic, fc, atl, "ok", fc[<<id, 0>>], NoInstant, "single_hit", FALSE, {},
             "none")

\* (variant: an animation is always looked up under its first frame)
FrameKey_First(id, current_frame) == <<id, 0>>

\* self.frame_cache.get(&(id, decoded.current_frame))
FrameKey(id, current_frame) == <<id, current_frame>>

\* CachedImage::Animation(decoded)
AnimationBranch(ic, fc, atl, id, t, fits) ==
    LET decoded == ic.map[id]
        len == Len(decoded.frames)
        due0 == NextDue(decoded.frame_start, decoded.frames, decoded.current_frame)
        advance == len > 1 /\ FrameElapsed(t, due0)
        cur == IF advance THEN NextFrame(decoded.current_frame, len)
               ELSE decoded.current_frame
        start == IF advance THEN t ELSE decoded.frame_start
        next == IF len > 1 THEN NextDue(start, decoded.frames, cur)
                ELSE NoInstant
        ic2 == [ic EXCEPT !.map[id] =
                    [decoded EXCEPT !.current_frame = cur, !.frame_start = start]]
        tex == AtlasAllocate(atl, fits)
    IN  IF FrameKey(id, cur) \in DOMAIN fc
        THEN ImageOut(ic2, fc, atl, "ok", fc[FrameKey(id, cur)], next, "anim_hit",
                      advance, {}, "none")
        ELSE IF ~tex.ok
        THEN ImageOut(ic2, fc, atl, "err", NoSprite, NoInstant, "anim_alloc",
                      advance, {}, decoded.frames[cur + 1].image)
        ELSE ImageOut(ic2, FrameInsert(fc, FrameKey(id, cur), tex.sprite),
                      tex.atlas, "ok",
                      tex.sprite, NextDue(start, decoded.frames, cur),
                      "anim_alloc", advance, {FrameKey(id, cur)},
                      decoded.frames[cur + 1].image)

\* (variant: the decoded image is put into the identity cache before its
\* first frame is allocated)
MissFailed_PutFirst(ic, id, decoded) ==
    LruPut(ic, id, IF IsAnimation(decoded.frames) THEN Animation(decoded)
                   ELSE SingleFrame)

\* let sprite = self.atlas.allocate(&decoded.frames[0])?; comes before
\* frame_cache.insert and image_cache.put
MissFailed(ic, id, decoded) == ic

\* the decode at the end of cached_image
FullMiss(ic, fc, atl, id, t, fits) ==
    LET decoded == LoadOrPlaceholder(id, t)
        tex == AtlasAllocate(atl, fits)
    IN  IF Len(decoded.frames) = 0
        THEN ImageOut(ic, fc, atl, "panic", NoSprite, NoInstant, "miss", FALSE, {},
                      "none")
        ELSE IF ~tex.ok
        THEN ImageOut(MissFailed(ic, id, decoded), fc, atl, "err", NoSprite,
                      NoInstant, "miss", FALSE, {}, decoded.frames[1].image)
        ELSE IF IsAnimation(decoded.frames)
        THEN ImageOut(LruPut(ic, id, Animation(decoded)),
                      FrameInsert(fc, <<id, 0>>, tex.sprite), tex.atlas, "ok",
                      tex.sprite, decoded.frame_start + decoded.frames[1].duration,
                      "miss", FALSE, {<<id, 0>>}, decoded.frames[1].image)
        ELSE ImageOut(LruPut(ic, id, SingleFrame),
                      FrameInsert(fc, <<id, 0>>, tex.sprite), tex.atlas, "ok",
                      tex.sprite, NoInstant, "miss", FALSE, {<<id, 0>>},
                      decoded.frames[1].image)

CachedImageResult(ic, fc, atl, id, t, fits) ==
    LET ic1 == LruTouch(ic, id)
    IN  IF TakesFullMiss(ic, fc, id) THEN FullMiss(ic1, fc, atl, id, t, fits)
        ELSE IF ic.map[id].tag = "SingleFrame" THEN SingleFrameHit(ic1, fc, atl, id)
        ELSE AnimationBranch(ic1, fc, atl, id, t, fits)

cached_image(id, fits) ==
    LET r == CachedImageResult(image_cache, frame_cache, atlas, id, now, fits)
    IN  /\ image_cache' = r.image_cache
        /\ frame_cache' = r.frame_cache
        /\ atlas' = r.atlas
        /\ due' = IF r.outcome = "ok" THEN MapPut(due, id, r.next) ELSE due
        /\ shown' = IF /\ id \in DOMAIN r.image_cache.map
                       /\ r.image_cache.map[id].tag = "Animation"
                    THEN MapPut(shown, id, r.image_cache.map[id].current_frame)
                    ELSE shown
        /\ last' = [op |-> "cached_image", id |-> id, ok |-> r.outcome = "ok",
                    outcome |-> r.outcome, sprite |-> r.sprite, next |-> r.next,
                    path |-> r.path, advanced |-> r.advanced,
                    allocated |-> r.allocated, image |-> r.image,
                    fits |-> r.image = "none" \/ fits,
                    evicted |-> DOMAIN image_cache.map \ DOMAIN r.image_cache.map]
        /\ hist' = [hist EXCEPT !.frame_allocs =
                [x \in DOMAIN @ \cup r.allocated |->
                    IF x \in r.allocated THEN Bump(MapGet(@, x, 0)) ELSE @[x]]]
        /\ UNCHANGED <<glyph_cache, line_glyphs, custom_glyphs, now, arg, res>>

(***************************************************************************)
(* The clock                                                               *)
(***************************************************************************)
Tick(d) ==
    /\ now + d <= MaxTime
    /\ now' = now + d
    /\ last' = [op |-> "tick", ok |-> TRUE]
    /\ UNCHANGED <<glyph_cache, atlas, image_cache, frame_cache, line_glyphs,
                   custom_glyphs, due, shown, hist, arg, res>>

\* time as it passes for a caller that polls every image again no later than
\* the next-due-instant it was last given for it
TickPolled(d) ==
    /\ \A id \in DOMAIN due : due[id] # NoInstant => now + d <= due[id]
    /\ Tick(d)

(***************************************************************************)
(* GlyphCache::cached_line_sprite / line_sprite                            *)
(***************************************************************************)
Underlines == {"None", "Single", "Double", "Curly", "Dashed", "Dotted"}

\* (variant: a highlighted cell keeps the underline it has, if it has one)
EffectiveUnderline_KeepOwn(is_highlited_hyperlink, underline) ==
    IF is_highlited_hyperlink /\ underline = "None" THEN "Single" ELSE underline

\* let effective_underline = match (is_highlited_hyperlink, underline)
EffectiveUnderline(is_highlited_hyperlink, underline) ==
    CASE is_highlited_hyperlink /\ underline = "None" -> "Single"
      [] is_highlited_hyperlink /\ underline = "Single" -> "Double"
      [] is_highlited_hyperlink -> "Single"
      [] OTHER -> underline

\* (variant: the strike-through and overline fields are filled crosswise)
LineKey_Swapped(strike_through, underline, overline) ==
    [strike_through |-> overline, underline |-> underline,
     overline |-> strike_through]

\* LineKey { strike_through, overline, underline }
LineKey(strike_through, underline, overline) ==
    [strike_through |-> strike_through, underline |-> underline,
     overline |-> overline]

cached_line_sprite(is_highlited_hyperlink, is_strike_through, underline, overline, fits) ==
    LET key == LineKey(is_strike_through,
                       EffectiveUnderline(is_highlited_hyperlink, underline),
                       overline)
        tex == AtlasAllocate(atlas, fits)
        call == [op |-> "cached_line_sprite", key |-> key,
                 highlight |-> is_highlited_hyperlink, underline |-> underline,
                 strike |-> is_strike_through, overline |-> overline]
    IN  /\ IF key \in DOMAIN line_glyphs
           THEN /\ last' = call @@ [ok |-> TRUE, hit |-> TRUE,
                                    sprite |-> line_glyphs[key]]
                /\ UNCHANGED <<line_glyphs, atlas, hist>>
           ELSE /\ line_glyphs' = IF tex.ok THEN MapPut(line_glyphs, key, tex.sprite)
                                  ELSE line_glyphs
                /\ atlas' = tex.atlas
                /\ last' = call @@ [ok |-> tex.ok, hit |-> FALSE,
                                    sprite |-> tex.sprite]
                /\ hist' = [hist EXCEPT
                        !.line_allocs =
                            IF tex.ok THEN MapPut(@, key, Bump(MapGet(@, key, 0)))
                            ELSE @,
                        !.line_made_by =
                            IF tex.ok
                            THEN MapPut(@, key, <<is_highlited_hyperlink, underline>>)
                            ELSE @]
        /\ UNCHANGED <<glyph_cache, image_cache, frame_cache, custom_glyphs,
                       now, due, shown, arg, res>>

(***************************************************************************)
(* GlyphCache::cached_custom_glyph                                         *)
(***************************************************************************)
\* (variant: the lookup never finds the key)
CustomGlyphLookup_AlwaysMiss(cache, custom_glyph) == FALSE

\* if let Some(s) = self.custom_glyphs.get(&custom_glyph)
CustomGlyphLookup(cache, custom_glyph) == custom_glyph \in DOMAIN cache

cached_custom_glyph(custom_glyph, fits) ==
    LET tex == AtlasAllocate(atlas, fits)
        call == [op |-> "cached_custom_glyph", key |-> custom_glyph]
    IN  /\ IF CustomGlyphLookup(custom_glyphs, custom_glyph)
           THEN /\ last' = call @@ [ok |-> TRUE, hit |-> TRUE,
                                    sprite |-> custom_glyphs[custom_glyph]]
                /\ UNCHANGED <<custom_glyphs, atlas>>
           ELSE /\ custom_glyphs' =
                        IF tex.ok THEN MapPut(custom_glyphs, custom_glyph, tex.sprite)
                        ELSE custom_glyphs
                /\ atlas' = tex.atlas
                /\ last' = call @@ [ok |-> tex.ok, hit |-> FALSE,
                                    sprite |-> tex.sprite]
        /\ UNCHANGED <<glyph_cache, image_cache, frame_cache, line_glyphs,
                       now, due, shown, hist, arg, res>>

(***************************************************************************)
(* Image buffers (window::bitmaps::Image)                                  *)
(*                                                                         *)
(* A buffer is a function from the pixels <<x, y>> of the cell to the      *)
(* alpha of the pixel in quarters: 0 is SrgbaPixel::rgba(0, 0, 0, 0), 4 is *)
(* rgba(0xff, 0xff, 0xff, 0xff).                                           *)
(***************************************************************************)
Black == 0
White == 4

Max(a, b) == IF a > b THEN a ELSE b

\* Image::new(width, height)
ImageNew(w, h) == [p \in (0 .. w - 1) \X (0 .. h - 1) |-> Black]

\* buffer.clear_rect(cell_rect, color)
clear_rect(buffer, color) == [p \in DOMAIN buffer |-> color]

\* buffer.draw_line(start, end, color): the pixels of the segment, both ends
\* included, that lie inside the buffer (all segments drawn are axis-aligned)
draw_line(buffer, start, end, color) ==
    [p \in DOMAIN buffer |->
        IF /\ Min(start[1], end[1]) <= p[1] /\ p[1] <= Max(start[1], end[1])
           /\ Min(start[2], end[2]) <= p[2] /\ p[2] <= Max(start[2], end[2])
        THEN color ELSE buffer[p]]

(***************************************************************************)
(* GlyphCache::block_sprite                                                *)
(***************************************************************************)
FFloor(f) == f[1] \div f[2]

FCeil(f) == (f[1] + f[2] - 1) \div f[2]

\* (variant: the eighths are rounded down)
ScaleCeil_Floor(f) == Max(FFloor(f), 1)

\* fn scale(f: f32) -> usize { f.ceil().max(1.) as usize }
ScaleCeil(f) == Max(FCeil(f), 1)

\* let draw_horizontal = |buffer, y| ...
draw_horizontal(buffer, w, y) == draw_line(buffer, <<0, y>>, <<w, y>>, White)

\* let draw_vertical = |buffer, x| ...
draw_vertical(buffer, h, x) == draw_line(buffer, <<x, 0>>, <<x, h>>, White)

\* draw_horizontal / draw_vertical for each position of a loop, in its order
RECURSIVE DrawEach(_, _, _, _)
DrawEach(buffer, dir, extent, at) ==
    IF at = <<>> THEN buffer
    ELSE DrawEach(IF dir = "horizontal"
                  THEN draw_horizontal(buffer, extent, Head(at))
                  ELSE draw_vertical(buffer, extent, Head(at)),
                  dir, extent, Tail(at))

\* (variant: the exclusive end of the x range is drawn as if inclusive)
RECURSIVE draw_quad_InclusiveEnd(_, _, _, _, _)
draw_quad_InclusiveEnd(buffer, x_start, x_end, y_start, y_end) ==
    IF y_start >= y_end THEN buffer
    ELSE draw_quad_InclusiveEnd(draw_line(buffer, <<x_start, y_start>>,
                                          <<x_end, y_start>>, White),
                                x_start, x_end, y_start + 1, y_end)

\* let draw_quad = |buffer, x: Range<usize>, y: Range<usize>| ...
RECURSIVE draw_quad(_, _, _, _, _)
draw_quad(buffer, x_start, x_end, y_start, y_end) ==
    IF y_start >= y_end THEN buffer
    ELSE draw_quad(draw_line(buffer, <<x_start, y_start>>,
                             <<Max(x_end - 1, 0), y_start>>, White),
                   x_start, x_end, y_start + 1, y_end)

\* for n in 0..num { for a in 0..scale(eighth) { (n * eighth).floor() + a } }
UpperAt(num, eighth) ==
    LET s == ScaleCeil(eighth)
    IN  [i \in 1 .. num * s |->
            FFloor(FMul(F((i - 1) \div s), eighth)) + ((i - 1) % s)]

\* for n in 0..num { let y = (size - 1) - scale(n * eighth);
\*                   for a in 0..scale(eighth) { y + a } }
LowerAt(num, eighth, size) ==
    LET s == ScaleCeil(eighth)
    IN  [i \in 1 .. num * s |->
            (size - 1) - ScaleCeil(FMul(F((i - 1) \div s), eighth))
              + ((i - 1) % s)]

\* (size - 1) as usize - scale(n as f32 * eighth) for some n of the loop is
\* below zero: a panic where overflow is checked; where it is not, the
\* wrapped position plus a, cast to isize, is the signed sum
LowerUnderflows(num, eighth, size) ==
    \E n \in 0 .. num - 1 : (size - 1) - ScaleCeil(FMul(F(n), eighth)) < 0

BlockAlphaValue(alpha) ==
    CASE alpha = "Full" -> 4
      [] alpha = "Dark" -> 3
      [] alpha = "Medium" -> 2
      [] alpha = "Light" -> 1

Quadrants == {"UPPER_LEFT", "UPPER_RIGHT", "LOWER_LEFT", "LOWER_RIGHT"}

\* BlockKey::Quadrants(quads)
DrawQuadrants(buffer, quads, w, h) ==
    LET x_half == ScaleCeil(FDiv(F(w), F(2)))
        y_half == ScaleCeil(FDiv(F(h), F(2)))
        b1 == IF "UPPER_LEFT" \in quads
              THEN draw_quad(buffer, 0, x_half, 0, y_half) ELSE buffer
        b2 == IF "UPPER_RIGHT" \in quads
              THEN draw_quad(b1, x_half, w, 0, y_half) ELSE b1
        b3 == IF "LOWER_LEFT" \in quads
              THEN draw_quad(b2, 0, x_half, y_half, h) ELSE b2
    IN  IF "LOWER_RIGHT" \in quads
        THEN draw_quad(b3, x_half, w, y_half, h) ELSE b3

\* the buffer block_sprite hands to the atlas for a cell of w x h pixels
BlockBuffer(block, w, h) ==
    LET buffer == clear_rect(ImageNew(w, h), Black)
        y_eighth == FDiv(F(h), F(8))
        x_eighth == FDiv(F(w), F(8))
    IN  CASE block.key = "Upper" ->
                DrawEach(buffer, "horizontal", w, UpperAt(block.n, y_eighth))
          [] block.key = "Lower" ->
                DrawEach(buffer, "horizontal", w, LowerAt(block.n, y_eighth, h))
          [] block.key = "Left" ->
                DrawEach(buffer, "vertical", h, UpperAt(block.n, x_eighth))
          [] block.key = "Right" ->
                DrawEach(buffer, "vertical", h, LowerAt(block.n, x_eighth, w))
          [] block.key = "Full" ->
                clear_rect(buffer, BlockAlphaValue(block.alpha))
          [] block.key = "Quadrants" ->
                DrawQuadrants(buffer, block.quads, w, h)

block_sprite(block, w, h, overflow_checks) ==
    IF /\ overflow_checks
       /\ \/ block.key = "Lower" /\ LowerUnderflows(block.n, FDiv(F(h), F(8)), h)
          \/ block.key = "Right" /\ LowerUnderflows(block.n, FDiv(F(w), F(8)), w)
    THEN [outcome |-> "panic", buffer |-> ImageNew(w, h)]
    ELSE [outcome |-> "ok", buffer |-> BlockBuffer(block, w, h)]

(***************************************************************************)
(* GlyphCache::box_drawing_sprite                                          *)
(***************************************************************************)
BoxDrawingKeys ==
    {"LightHorizontal", "HeavyHorizontal", "LightVertical", "HeavyVertical"}

\* let draw_rect = |buffer, rect| for x in min.x..max.x, y in min.y..max.y
draw_rect(buffer, min, max) ==
    [p \in DOMAIN buffer |->
        IF /\ min[1] <= p[1] /\ p[1] < max[1]
           /\ min[2] <= p[2] /\ p[2] < max[2]
        THEN White ELSE buffer[p]]

\* cell_rect.center()
RectCenter(w, h) == <<w \div 2, h \div 2>>

\* the buffer box_drawing_sprite hands to the atlas for a cell of w x h
\* pixels and an underline_height of t pixels
box_drawing_sprite(box_drawing, w, h, t) ==
    LET buffer == clear_rect(ImageNew(w, h), Black)
        center == RectCenter(w, h)
        light_thickness == t
        heavy_thickness == light_thickness * 2
        thickness == IF box_drawing \in {"LightHorizontal", "LightVertical"}
                     THEN light_thickness ELSE heavy_thickness
        half_thickness == thickness \div 2
    IN  IF box_drawing \in {"LightHorizontal", "HeavyHorizontal"}
        THEN draw_rect(buffer, <<0, center[2] - half_thickness>>,
                       <<w, center[2] + half_thickness>>)
        ELSE draw_rect(buffer, <<center[1] - half_thickness, 0>>,
                       <<center[1] + half_thickness, h>>)

(***************************************************************************)
(* CustomGlyphKey::from_char, BlockKey::from_char, BoxDrawingKey::from_char *)
(*                                                                         *)
(* A char is its codepoint; 0x2500 = 9472, 0x2580 = 9600, 0x259f = 9631.   *)
(* An Option<key> is a record whose tag is "None" for None.                *)
(***************************************************************************)
NoKey == [tag |-> "None"]

Upper(n) == [key |-> "Upper", n |-> n]
Lower(n) == [key |-> "Lower", n |-> n]
Left(n) == [key |-> "Left", n |-> n]
Right(n) == [key |-> "Right", n |-> n]
Full(alpha) == [key |-> "Full", alpha |-> alpha]
QuadrantsKey(quads) == [key |-> "Quadrants", quads |-> quads]

\* BlockKey::from_char
BlockKey_from_char(c) ==
    CASE c = 9600 -> [tag |-> "Some", block |-> Upper(4)]
      [] c \in 9601 .. 9607 -> [tag |-> "Some", block |-> Lower(c - 9600)]
      [] c = 9608 -> [tag |-> "Some", block |-> Full("Full")]
      [] c \in 9609 .. 9615 -> [tag |-> "Some", block |-> Left(9616 - c)]
      [] c = 9616 -> [tag |-> "Some", block |-> Right(4)]
      [] c = 9617 -> [tag |-> "Some", block |-> Full("Light")]
      [] c = 9618 -> [tag |-> "Some", block |-> Full("Medium")]
      [] c = 9619 -> [tag |-> "Some", block |-> Full("Dark")]
      [] c = 9620 -> [tag |-> "Some", block |-> Upper(1)]
      [] c = 9621 -> [tag |-> "Some", block |-> Right(1)]
      [] c = 9622 -> [tag |-> "Some", block |-> QuadrantsKey({"LOWER_LEFT"})]
      [] c = 9623 -> [tag |-> "Some", block |-> QuadrantsKey({"LOWER_RIGHT"})]
      [] c = 9624 -> [tag |-> "Some", block |-> QuadrantsKey({"UPPER_LEFT"})]
      [] c = 9625 -> [tag |-> "Some", block |->
                        QuadrantsKey({"UPPER_LEFT", "LOWER_LEFT", "LOWER_RIGHT"})]
      [] c = 9626 -> [tag |-> "Some", block |->
                        QuadrantsKey({"UPPER_LEFT", "LOWER_RIGHT"})]
      [] c = 9627 -> [tag |-> "Some", block |->
                        QuadrantsKey({"UPPER_LEFT", "UPPER_RIGHT", "LOWER_LEFT"})]
      [] c = 9628 -> [tag |-> "Some", block |->
                        QuadrantsKey({"UPPER_LEFT", "UPPER_RIGHT", "LOWER_RIGHT"})]
      [] c = 9629 -> [tag |-> "Some", block |-> QuadrantsKey({"UPPER_RIGHT"})]
      [] c = 9630 -> [tag |-> "Some", block |->
                        QuadrantsKey({"UPPER_RIGHT", "LOWER_LEFT"})]
      [] c = 9631 -> [tag |-> "Some", block |->
                        QuadrantsKey({"UPPER_RIGHT", "LOWER_LEFT", "LOWER_RIGHT"})]
      [] OTHER -> NoKey

\* BoxDrawingKey::from_char
BoxDrawingKey_from_char(c) ==
    CASE c = 9472 -> [tag |-> "Some", box |-> "LightHorizontal"]
      [] c = 9473 -> [tag |-> "Some", box |-> "HeavyHorizontal"]
      [] c = 9474 -> [tag |-> "Some", box |-> "LightVertical"]
      [] c = 9475 -> [tag |-> "Some", box |-> "HeavyVertical"]
      [] OTHER -> NoKey

\* (variant: the block range stops one codepoint short)
CustomGlyphKey_from_char_ShortRange(c) ==
    CASE c \in 9472 .. 9599 ->
            IF BoxDrawingKey_from_char(c).tag = "Some"
            THEN [tag |-> "BoxDrawing", box |-> BoxDrawingKey_from_char(c).box]
            ELSE NoKey
      [] c \in 9600 .. 9630 ->
            IF BlockKey_from_char(c).tag = "Some"
            THEN [tag |-> "Block", block |-> BlockKey_from_char(c).block]
            ELSE NoKey
      [] OTHER -> NoKey

\* CustomGlyphKey::from_char
CustomGlyphKey_from_char(c) ==
    CASE c \in 9472 .. 9599 ->
            IF BoxDrawingKey_from_char(c).tag = "Some"
            THEN [tag |-> "BoxDrawing", box |-> BoxDrawingKey_from_char(c).box]
            ELSE NoKey
      [] c \in 9600 .. 9631 ->
            IF BlockKey_from_char(c).tag = "Some"
            THEN [tag |-> "Block", block |-> BlockKey_from_char(c).block]
            ELSE NoKey
      [] OTHER -> NoKey

NoArg == [fn |-> "none"]
NoRes == [done |-> FALSE]

(***************************************************************************)
(* Construction: new_gl / new_in_memory                                    *)
(***************************************************************************)
Init ==
    /\ glyph_cache = EmptyMap
    /\ atlas = AtlasNew
    /\ image_cache = LruNew
    /\ frame_cache = EmptyMap
    /\ line_glyphs = EmptyMap
    /\ custom_glyphs = EmptyMap
    /\ now = 0
    /\ due = EmptyMap
    /\ last = [op |-> "new", ok |-> TRUE]
    /\ hist = HistNew
    /\ arg = NoArg
    /\ res = NoRes
    /\ shown = EmptyMap

(***************************************************************************)
(* What the collaborators can answer                                       *)
(***************************************************************************)
Metrics(w, h) == [ok |-> TRUE, cell_width |-> w, cell_height |-> h]
NoMetrics == [ok |-> FALSE, cell_width |-> 0, cell_height |-> 0]

Raster(w, h, bx, by, color) ==
    [ok |-> TRUE, width |-> w, height |-> h, bearing_x |-> bx, bearing_y |-> by,
     has_color |-> color]

GlyphInfo(font_idx, glyph_pos, num_cells, x_offset, y_offset) ==
    [font_idx |-> font_idx, glyph_pos |-> glyph_pos, num_cells |-> num_cells,
     x_offset |-> x_offset, y_offset |-> y_offset]

Configs == {"Never", "Always", "WhenFollowedBySpace"}

Env(font_ok, raster, idx, cfg, fits) ==
    [font_ok |-> font_ok, base |-> Metrics(2, 4), raster |-> raster, idx |-> idx,
     cfg |-> cfg, fits |-> fits]

\* the answers of the font and the atlas in the glyph specification
GlyphEnvs ==
    {Env(FALSE, NoRaster, NoMetrics, "Never", TRUE),
     Env(TRUE, NoRaster, NoMetrics, "Never", TRUE),
     Env(TRUE, Raster(2, 4, 1, 3, FALSE), NoMetrics, "Never", TRUE)}
    \cup {Env(TRUE, r, Metrics(4, 4), c, f) :
            r \in {Raster(3, 0, 1, 0, FALSE), Raster(0, 2, 0, 1, FALSE),
                   Raster(6, 4, 2, 3, TRUE)},
            c \in {"Never", "WhenFollowedBySpace"}, f \in BOOLEAN}
    \cup {Env(TRUE, Raster(2, 4, 1, 3, FALSE), Metrics(2, 4), "Always", f) :
            f \in BOOLEAN}

GlyphInfos ==
    {GlyphInfo(0, 5, 1, 2, 0), GlyphInfo(1, 5, 2, 3, 1)}

(***************************************************************************)
(* Specifications                                                          *)
(***************************************************************************)
\* the glyph cache: every way a glyph can load or fail, and clear()
NextGlyph ==
    \/ \E info \in GlyphInfos, addr \in {"a1"}, fbs \in BOOLEAN, env \in GlyphEnvs :
          CachedGlyphStep(info, addr, fbs, env)
    \/ clear

SpecGlyph == Init /\ [][NextGlyph]_vars

\* the glyph cache's keys: every field of the key takes two values, and the
\* same TextStyle is borrowed from two places
KeyInfos == {GlyphInfo(0, 5, 1, 0, 0), GlyphInfo(1, 5, 1, 0, 0), GlyphInfo(0, 6, 1, 0, 0)}

KeyEnvs ==
    {Env(TRUE, Raster(2, 4, 1, 3, FALSE), Metrics(2, 4), "Never", f) :
        f \in BOOLEAN}

NextKeys ==
    \/ \E info \in KeyInfos, addr \in StyleAddrs, fbs \in BOOLEAN, env \in KeyEnvs :
          CachedGlyphStep(info, addr, fbs, env)
    \/ clear

SpecKeys == Init /\ [][NextKeys]_vars

\* load_glyph's choice of scale, as a function of its inputs
ScaleArgs ==
    [base : {Metrics(2, 4)},
     idx : {Metrics(2, 4), Metrics(4, 4), Metrics(10, 9), Metrics(10, 8),
            Metrics(3, 6)},
     num_cells : {1, 2},
     glyph_width : {0, 2, 4, 5, 6},
     cfg : Configs,
     followed_by_space : BOOLEAN]

InitScale ==
    /\ Init!1 /\ Init!2 /\ Init!3 /\ Init!4 /\ Init!5 /\ Init!6 /\ Init!7
    /\ Init!8 /\ Init!9 /\ Init!10 /\ Init!13
    /\ arg \in ScaleArgs
    /\ res = NoRes

ApplyScale ==
    /\ ~res.done
    /\ \E allow \in {AllowWidthOverflow(arg.idx, arg.cfg, arg.followed_by_space)} :
          res' = [done |-> TRUE, allow |-> allow,
                  scale |-> ChooseScale(arg.base, arg.idx, arg.num_cells,
                                        arg.glyph_width, allow)]
    /\ UNCHANGED <<arg, glyph_cache, atlas, image_cache, frame_cache,
                   line_glyphs, custom_glyphs, now, due, shown, last, hist>>

SpecScale == InitScale /\ [][ApplyScale]_vars

\* one animated GIF of three 100 ms frames, and a caller that polls it again
\* no later than each next-due-instant
NextPoll ==
    \/ \E fits \in BOOLEAN : cached_image(1, fits)
    \/ TickPolled(1)
    \/ clear

SpecPoll == Init /\ [][NextPoll]_vars

\* images of every kind of decode outcome, fewer than the LRU holds
ImageIds == {3, 6, 7, 8}

NextImage ==
    \/ \E id \in ImageIds, fits \in BOOLEAN : cached_image(id, fits)
    \/ Tick(2)
    \/ clear

SpecImage == Init /\ [][NextImage]_vars

\* a cache that has resolved LruCapacity images: image 1 or 2 first, then
\* the fifteen background images, all at instant 0
RECURSIVE Descending(_, _)
Descending(hi, lo) == IF hi < lo THEN <<>> ELSE <<hi>> \o Descending(hi - 1, lo)

LruFull(first) ==
    LET ids == BackgroundIds \cup {first}
        slot(id) == IF id = first THEN 1 ELSE id - 99
        decoded == LoadOrPlaceholder(first, 0)
    IN  /\ image_cache =
              [order |-> Descending(100 + LruCapacity - 1, 101) \o <<first>>,
               map |-> [id \in ids |->
                          IF id = first /\ IsAnimation(decoded.frames)
                          THEN Animation(decoded) ELSE SingleFrame]]
        /\ frame_cache = [k \in {<<id, 0>> : id \in ids} |-> slot(k[1])]
        /\ atlas = [next |-> LruCapacity + 1, left |-> AtlasCap]
        /\ due = [id \in ids |->
                    IF id = first /\ IsAnimation(decoded.frames)
                    THEN decoded.frames[1].duration ELSE NoInstant]
        /\ shown = [id \in {x \in {first} : IsAnimation(decoded.frames)} |-> 0]
        /\ hist = [HistNew EXCEPT !.frame_allocs =
                                    [k \in {<<id, 0>> : id \in ids} |-> 1]]

InitLru ==
    /\ glyph_cache = EmptyMap
    /\ line_glyphs = EmptyMap
    /\ custom_glyphs = EmptyMap
    /\ now = 0
    /\ last = [op |-> "new", ok |-> TRUE]
    /\ arg = NoArg
    /\ res = NoRes
    /\ \E first \in {1, 2} : LruFull(first)

NextLru ==
    \/ \E id \in {1, 2}, fits \in BOOLEAN : cached_image(id, fits)
    \/ Tick(2)
    \/ clear

SpecLru == InitLru /\ [][NextLru]_vars

\* a cache that resolved the three-frame animation 1 at instant 0, polled it
\* again at instant 2 (it moved on to frame 1), and then resolved the fifteen
\* background images: the animation is now the least recently used entry
InitEvict ==
    LET decoded == LoadOrPlaceholder(1, 0)
        entry == [Animation(decoded) EXCEPT !.current_frame = 1, !.frame_start = 2]
    IN  /\ glyph_cache = EmptyMap
        /\ line_glyphs = EmptyMap
        /\ custom_glyphs = EmptyMap
        /\ now = 2
        /\ last = [op |-> "new", ok |-> TRUE]
        /\ arg = NoArg
        /\ res = NoRes
        /\ image_cache =
              [order |-> Descending(100 + LruCapacity - 1, 101) \o <<1>>,
               map |-> [id \in BackgroundIds \cup {1} |->
                          IF id = 1 THEN entry ELSE SingleFrame]]
        /\ frame_cache =
              [k \in {<<id, 0>> : id \in BackgroundIds} \cup {<<1, 0>>, <<1, 1>>}
                 |-> IF k[1] = 1 THEN k[2] + 1 ELSE k[1] - 98]
        /\ atlas = [next |-> LruCapacity + 2, left |-> AtlasCap]
        /\ due = [id \in BackgroundIds \cup {1} |->
                    IF id = 1 THEN NextDue(2, decoded.frames, 1) ELSE NoInstant]
        /\ shown = [id \in {1} |-> 1]
        /\ hist = [HistNew EXCEPT !.frame_allocs =
                      [k \in {<<id, 0>> : id \in BackgroundIds}
                               \cup {<<1, 0>>, <<1, 1>>} |-> 1]]

NextEvict ==
    \/ \E id \in {1, 2}, fits \in BOOLEAN : cached_image(id, fits)
    \/ Tick(2)
    \/ clear

SpecEvict == InitEvict /\ [][NextEvict]_vars

\* the line-sprite cache: every underline variant, with and without the
\* hyperlink highlight
NextLine ==
    \/ \E hl \in BOOLEAN, u \in Underlines, fits \in BOOLEAN :
          cached_line_sprite(hl, FALSE, u, FALSE, fits)
    \/ clear

SpecLine == Init /\ [][NextLine]_vars

\* the line-sprite cache keys: the underlines a highlight maps onto each
\* other, with and without the highlight and the strike-through
NextLineKeys ==
    \/ \E hl \in BOOLEAN, st \in BOOLEAN, u \in {"None", "Single", "Double"},
          fits \in BOOLEAN :
          cached_line_sprite(hl, st, u, FALSE, fits)
    \/ clear

SpecLineKeys == Init /\ [][NextLineKeys]_vars

\* images whose decode fails in each of the three ways (format not
\* recognised, GIF that decodes neither as animation nor as still, APNG whose
\* frames do not decode), next to an animation that decodes
DecodeIds == {1, 3, 5, 9}

NextDecode ==
    \/ \E id \in DecodeIds, fits \in BOOLEAN : cached_image(id, fits)
    \/ Tick(3)
    \/ clear

SpecDecode == Init /\ [][NextDecode]_vars

\* GIF images: one that decodes as an animation, one that decodes only as a
\* still, one that does not decode at all
GifIds == {1, 4, 5}

NextGif ==
    \/ \E id \in GifIds, fits \in BOOLEAN : cached_image(id, fits)
    \/ Tick(3)
    \/ clear

SpecGif == Init /\ [][NextGif]_vars

\* block_sprite as a function of the block and the cell size
BlockKeys ==
    {[key |-> k, n |-> n] : k \in {"Upper", "Lower", "Left", "Right"}, n \in 1 .. 7}
      \cup {[key |-> "Full", alpha |-> a] : a \in {"Full", "Dark", "Medium", "Light"}}
      \cup {[key |-> "Quadrants", quads |-> q] : q \in SUBSET Quadrants}

BlockArgs ==
    {[fn |-> "block_sprite", block |-> b, w |-> w, h |-> h, overflow_checks |-> c] :
        b \in BlockKeys, w \in 1 .. MaxCellWidth, h \in 1 .. MaxCellHeight,
        c \in BOOLEAN}

InitBlock ==
    /\ Init!1 /\ Init!2 /\ Init!3 /\ Init!4 /\ Init!5 /\ Init!6 /\ Init!7
    /\ Init!8 /\ Init!9 /\ Init!10 /\ Init!13
    /\ arg \in BlockArgs
    /\ res = NoRes

ApplyBlock ==
    /\ ~res.done
    /\ \E r \in {block_sprite(arg.block, arg.w, arg.h, arg.overflow_checks)} :
          res' = [done |-> TRUE, outcome |-> r.outcome, buffer |-> r.buffer]
    /\ UNCHANGED <<arg, glyph_cache, atlas, image_cache, frame_cache,
                   line_glyphs, custom_glyphs, now, due, shown, last, hist>>

SpecBlock == InitBlock /\ [][ApplyBlock]_vars

\* box_drawing_sprite as a function of the key, the cell size and the
\* underline thickness; the thickness of a font's underline is a fraction of
\* its cell, so that the heavy stroke lies inside the cell
BoxArgs ==
    {a \in [fn : {"box_drawing_sprite"}, key : BoxDrawingKeys,
            w : 2 .. MaxCellWidth, h : 2 .. MaxCellHeight, t : 1 .. MaxThickness] :
        /\ a.t <= a.w \div 2
        /\ a.t <= a.h \div 2}

InitBox ==
    /\ Init!1 /\ Init!2 /\ Init!3 /\ Init!4 /\ Init!5 /\ Init!6 /\ Init!7
    /\ Init!8 /\ Init!9 /\ Init!10 /\ Init!13
    /\ arg \in BoxArgs
    /\ res = NoRes

ApplyBox ==
    /\ ~res.done
    /\ res' = [done |-> TRUE,
               buffer |-> box_drawing_sprite(arg.key, arg.w, arg.h, arg.t)]
    /\ UNCHANGED <<arg, glyph_cache, atlas, image_cache, frame_cache,
                   line_glyphs, custom_glyphs, now, due, shown, last, hist>>

SpecBox == InitBox /\ [][ApplyBox]_vars

\* from_char as a function of the character: the two ranges, what lies
\* around them, and the ends of the codepoint space
Codepoints == (9472 - MaxMargin .. 9631 + MaxMargin) \cup {0, 65, 1114111}

InitChar ==
    /\ Init!1 /\ Init!2 /\ Init!3 /\ Init!4 /\ Init!5 /\ Init!6 /\ Init!7
    /\ Init!8 /\ Init!9 /\ Init!10 /\ Init!13
    /\ arg \in [fn : {"from_char"}, c : Codepoints]
    /\ res = NoRes

ApplyChar ==
    /\ ~res.done
    /\ res' = [done |-> TRUE, key |-> CustomGlyphKey_from_char(arg.c)]
    /\ UNCHANGED <<arg, glyph_cache, atlas, image_cache, frame_cache,
                   line_glyphs, custom_glyphs, now, due, shown, last, hist>>

SpecChar == InitChar /\ [][ApplyChar]_vars

\* two animations, of three 100 ms frames and of a 50 ms and a 0 ms frame,
\* asked for at any instant; allocations fail when the atlas is full
NextAnim ==
    \/ \E id \in {1, 8} : cached_image(id, TRUE)
    \/ Tick(1)
    \/ clear

SpecAnim == Init /\ [][NextAnim]_vars

\* an Instant after the clock's epoch was moved forward by d; instants before
\* the new epoch are kept at the epoch
Rebase(x, d) == IF x = NoInstant THEN NoInstant ELSE Max(x - d, 0)

\* time passing once the clock shows MaxTime: the epoch moves instead of the
\* clock.  Instants are only compared with now (603), and an instant at the
\* epoch is at least MaxTime old, which is longer than every frame lasts
TickRebased(d) ==
    /\ now + d > MaxTime
    /\ image_cache' =
          [image_cache EXCEPT !.map =
              [id \in DOMAIN @ |->
                  [@[id] EXCEPT !.frame_start = Rebase(@, d),
                                !.decoded_at = Rebase(@, d)]]]
    /\ due' = [id \in DOMAIN due |-> Rebase(due[id], d)]
    /\ last' = [op |-> "tick", ok |-> TRUE]
    /\ UNCHANGED <<glyph_cache, atlas, frame_cache, line_glyphs, custom_glyphs,
                   now, shown, hist, arg, res>>

\* time that never stops
TickOn(d) == Tick(d) \/ TickRebased(d)

\* the three-frame animation with a caller that keeps asking for it while
\* time keeps passing; every allocation succeeds, and clear() may come at any
\* moment
NextProgress ==
    \/ cached_image(1, TRUE)
    \/ TickOn(1)
    \/ clear

SpecProgress ==
    /\ Init
    /\ [][NextProgress]_vars
    /\ WF_vars(cached_image(1, TRUE))
    /\ WF_vars(TickOn(1))

\* every operation of the cache
CustomGlyphKeys ==
    {[tag |-> "BoxDrawing", key |-> "LightHorizontal", n |-> 0],
     [tag |-> "Block", key |-> "Upper", n |-> 4]}

Next ==
    \/ \E env \in {Env(TRUE, Raster(3, 0, 1, 0, FALSE), Metrics(4, 4), "Never", TRUE),
                    Env(TRUE, Raster(6, 4, 2, 3, TRUE), Metrics(4, 4), "Never", TRUE)} :
          CachedGlyphStep(GlyphInfo(0, 5, 1, 0, 0), "a1", FALSE, env)
    \/ cached_image(1, TRUE)
    \/ \E hl \in BOOLEAN : cached_line_sprite(hl, FALSE, "None", FALSE, TRUE)
    \/ \E g \in CustomGlyphKeys : cached_custom_glyph(g, TRUE)
    \/ Tick(2)
    \/ clear

Spec == Init /\ [][Next]_vars

(***************************************************************************)
(* Properties                                                              *)
(***************************************************************************)
LastKey == to_owned(last.key)

\* C1: two successful cached_glyph calls with the same arguments and no
\* clear() between them return the same CachedGlyph, the atlas is allocated
\* into at most once for the key, and the second call neither rasterizes nor
\* allocates.
C1_GlyphIdempotence ==
    /\ [](\A k \in DOMAIN hist.glyph_returns :
             Cardinality(hist.glyph_returns[k]) <= 1)
    /\ [](\A k \in DOMAIN hist.glyph_allocs : hist.glyph_allocs[k] <= 1)
    /\ [][(/\ last'.op = "cached_glyph"
           /\ to_owned(last'.key) \in DOMAIN hist.glyph_returns)
          => (/\ last'.ok
              /\ last'.result \in hist.glyph_returns[to_owned(last'.key)]
              /\ ~last'.rasterized
              /\ last'.allocs = 0
              /\ atlas' = atlas)]_vars

C1_Witness ==
    /\ last.op = "cached_glyph"
    /\ last.hit
    /\ last.result.texture # NoSprite
    /\ hist.glyph_allocs[LastKey] = 1

\* C2: clear() empties the glyph cache, the frame cache, the line-sprite
\* cache and the custom-glyph cache and resets the atlas, and leaves the
\* image identity cache (ids, tags, current_frame, frame_start) as it was.
C2_ClearKeepsImages ==
    [][last'.op = "clear"
       => (/\ glyph_cache' = EmptyMap
           /\ frame_cache' = EmptyMap
           /\ line_glyphs' = EmptyMap
           /\ custom_glyphs' = EmptyMap
           /\ atlas'.next = 1
           /\ atlas'.left = AtlasCap
           /\ image_cache'.order = image_cache.order
           /\ DOMAIN image_cache'.map = DOMAIN image_cache.map
           /\ \A id \in DOMAIN image_cache.map :
                 /\ image_cache'.map[id].tag = image_cache.map[id].tag
                 /\ image_cache'.map[id].current_frame
                        = image_cache.map[id].current_frame
                 /\ image_cache'.map[id].frame_start
                        = image_cache.map[id].frame_start)]_vars

C2_Witness ==
    /\ last.op = "clear"
    /\ \A i \in 1 .. 5 : last.dropped[i] >= 1
    /\ \E id \in DOMAIN image_cache.map :
          /\ image_cache.map[id].tag = "Animation"
          /\ image_cache.map[id].current_frame > 0
          /\ image_cache.map[id].frame_start > 0

Durations(frames) == [i \in 1 .. Len(frames) |-> frames[i].duration]

\* C3: a 3-frame animation with durations [100ms, 100ms, 100ms] whose caller
\* polls no later than each returned next-due-instant is, 250 ms after its
\* start, at frame 2, and the next-due-instant last reported is the
\* frame_start of the transition into frame 2 plus 100 ms.
C3_FrameAt250ms ==
    \A id \in DOMAIN image_cache.map :
        (/\ image_cache.map[id].tag = "Animation"
         /\ Durations(image_cache.map[id].frames) = <<2, 2, 2>>
         /\ now = image_cache.map[id].decoded_at + 5)
        => /\ image_cache.map[id].current_frame = 2
           /\ image_cache.map[id].frame_start = image_cache.map[id].decoded_at + 4
           /\ id \in DOMAIN due
           /\ due[id] = image_cache.map[id].frame_start + 2

C3_Witness ==
    /\ 1 \in DOMAIN image_cache.map
    /\ image_cache.map[1].tag = "Animation"
    /\ now = image_cache.map[1].decoded_at + 5
    /\ image_cache.map[1].current_frame = 2
    /\ due[1] = now + 1

DecodedFrameCount(id) == Len(LoadOrPlaceholder(id, 0).frames)

\* C4: an identity-cache entry is Animation only if its frame list has at
\* least 2 frames; every successful cached_image call for an image that
\* decoded to exactly one frame returns no next-due-instant, and every
\* successful call for an image of 2 or more frames returns one.
C4_SingleFrameNoDue ==
    /\ \A id \in DOMAIN image_cache.map :
          /\ image_cache.map[id].tag = "Animation"
                => Len(image_cache.map[id].frames) >= 2
          /\ image_cache.map[id].tag = "Animation" <=> DecodedFrameCount(id) >= 2
    /\ (last.op = "cached_image" /\ last.ok)
          => /\ DecodedFrameCount(last.id) >= 1
             /\ DecodedFrameCount(last.id) = 1 <=> last.next = NoInstant

C4_Witness ==
    /\ last.op = "cached_image"
    /\ last.ok
    /\ last.id = 3
    /\ last.path = "miss"
    /\ last.next = NoInstant
    /\ Cardinality(DOMAIN frame_cache) = 1
    /\ {3, 7, 8} \subseteq DOMAIN image_cache.map

\* C5: between two clear() calls the atlas is allocated into at most once
\* per (image id, frame index), i.e. only when the frame cache holds no
\* sprite for the pair.
C5_OneAllocationPerFrame ==
    /\ [](\A k \in DOMAIN hist.frame_allocs : hist.frame_allocs[k] <= 1)
    /\ [][last'.op = "cached_image"
          => \A k \in last'.allocated : k \notin DOMAIN frame_cache]_vars

KeyQueries ==
    {[font_idx |-> i.font_idx, glyph_pos |-> i.glyph_pos, style |-> StyleRef(a),
      followed_by_space |-> f] : i \in KeyInfos, a \in StyleAddrs, f \in BOOLEAN}

FieldsEqual(k, q) ==
    /\ k.font_idx = q.font_idx
    /\ k.glyph_pos = q.glyph_pos
    /\ k.style = StyleAt(q.style.loc)
    /\ k.followed_by_space = q.followed_by_space

\* C6: a lookup with a BorrowedGlyphKey hits the entry inserted under the
\* owned GlyphKey exactly when the four fields are equal; equality and hash
\* of the two key forms agree on every such pair.
C6_BorrowedOwnedKeys ==
    /\ [](\A k \in DOMAIN glyph_cache : \A q \in KeyQueries :
             /\ FieldsEqual(k, q) => HashGlyphKey(k) = DynHash(q)
             /\ DynEq(k, q) <=> FieldsEqual(k, q))
    /\ [][last'.op = "cached_glyph"
          => /\ last'.hit <=> \E k \in DOMAIN glyph_cache : FieldsEqual(k, last'.key)
             /\ \A k \in DOMAIN glyph_cache :
                   (last'.hit /\ FieldsEqual(k, last'.key))
                      => last'.result = glyph_cache[k]]_vars

C6_Witness ==
    /\ last.op = "cached_glyph"
    /\ last.hit
    /\ last.key.style.loc = "a2"
    /\ hist.glyph_loads[LastKey].style_at = "a1"
    /\ Cardinality(DOMAIN glyph_cache) = 2
    /\ last.result.texture # NoSprite

\* C7: a cached_glyph call that fails (font resolution, rasterization,
\* per-index metrics or atlas allocation) leaves the glyph cache as it was,
\* with no entry for the key, and a call for a key that is not cached goes
\* through load_glyph.
C7_GlyphFailureAtomic ==
    /\ [][(last'.op = "cached_glyph" /\ ~last'.ok)
          => (/\ glyph_cache' = glyph_cache
              /\ to_owned(last'.key) \notin DOMAIN glyph_cache'
              /\ last'.failed_at \in {"resolve_font", "rasterize_glyph",
                                      "metrics_for_idx", "allocate"})]_vars
    /\ [][(/\ last'.op = "cached_glyph"
           /\ to_owned(last'.key) \notin DOMAIN glyph_cache)
          => ~last'.hit]_vars

C7_Witness ==
    /\ last.op = "cached_glyph"
    /\ ~last.ok
    /\ last.failed_at = "allocate"
    /\ atlas.left > 0
    /\ glyph_cache # EmptyMap

\* C8: when width overflow is disallowed and y_scale * glyph_width >
\* base_cell_width * num_cells the chosen scale is x_scale; in every other
\* case it is y_scale.
C8_ScaleSelection ==
    res.done =>
        LET bw == arg.base.cell_width
            bh == arg.base.cell_height
            iw == arg.idx.cell_width
            ih == arg.idx.cell_height
            too_wide == bh * arg.glyph_width > bw * arg.num_cells * ih
        IN  IF ~res.allow /\ too_wide
            THEN res.scale[1] * iw = bw * arg.num_cells * res.scale[2]
            ELSE res.scale[1] * ih = bh * res.scale[2]

C8_Witness ==
    /\ res.done
    /\ ~res.allow
    /\ arg.idx = Metrics(4, 4)
    /\ arg.glyph_width = 4
    /\ arg.num_cells = 1
    /\ res.scale = <<1, 2>>

\* C9: width overflow is permitted exactly when the aspect ratio
\* (height / width) is >= 0.9 and the switch is Always, or is
\* WhenFollowedBySpace with followed_by_space true.
C9_OverflowPolicy ==
    res.done =>
        (res.allow <=>
            /\ 10 * arg.idx.cell_height >= 9 * arg.idx.cell_width
            /\ \/ arg.cfg = "Always"
               \/ arg.cfg = "WhenFollowedBySpace" /\ arg.followed_by_space)

C9_Witness ==
    /\ res.done
    /\ res.allow
    /\ arg.idx = Metrics(10, 9)
    /\ arg.cfg = "WhenFollowedBySpace"
    /\ arg.followed_by_space

C11_HyperlinkEscalation ==
    last.op = "cached_line_sprite"
    => /\ (last.highlight /\ last.underline = "None")
             => last.key.underline = "Single"
       /\ (last.highlight /\ last.underline = "Single")
             => last.key.underline = "Double"
       /\ (last.highlight /\ last.underline \in {"Double", "Curly", "Dashed", "Dotted"})
             => last.key.underline = "Single"
       /\ ~last.highlight => last.key.underline = last.underline
       /\ last.ok => (/\ last.key \in DOMAIN line_glyphs
                      /\ line_glyphs[last.key] = last.sprite)

C11_Witness ==
    /\ last.op = "cached_line_sprite"
    /\ last.ok
    /\ last.highlight
    /\ last.underline = "Curly"
    /\ last.key.underline = "Single"
    /\ last.hit
    /\ LineKey(FALSE, "Double", FALSE) \in DOMAIN line_glyphs

DecodeFails(id) == ~DecodedImage_load(ImageFile(id), 0).ok

\* C12: a cached_image call for an image whose decode fails returns either
\* a sprite or an atlas allocation error, never a decode error; when it
\* succeeds on the decode path it has uploaded the 1x1 placeholder as frame
\* 0, stored the id as SingleFrame and returned no next-due-instant; and
\* every error cached_image returns follows a failed atlas allocation.
C12_DecodeFailureRecovered ==
    [][last'.op = "cached_image"
       => /\ last'.outcome = "err"
               => /\ last'.image # "none"
                  /\ ~last'.fits \/ atlas.left = 0
                  /\ atlas' = atlas
                  /\ frame_cache' = frame_cache
          /\ DecodeFails(last'.id)
               => /\ last'.outcome \in {"ok", "err"}
                  /\ last'.image \in {"none", "placeholder"}
                  /\ last'.ok
                       => /\ last'.next = NoInstant
                          /\ last'.sprite # NoSprite
                          /\ frame_cache'[<<last'.id, 0>>] = last'.sprite
                          /\ image_cache'.map[last'.id].tag = "SingleFrame"
                  /\ (last'.ok /\ last'.path = "miss")
                       => /\ last'.image = "placeholder"
                          /\ atlas'.next = atlas.next + 1]_vars

C12_Witness ==
    /\ last.op = "cached_image"
    /\ last.id = 9
    /\ last.ok
    /\ last.path = "miss"
    /\ last.image = "placeholder"
    /\ last.next = NoInstant
    /\ image_cache.map[9].tag = "SingleFrame"
    /\ {3, 5} \subseteq DOMAIN image_cache.map

IsInjective(s) == \A i, j \in 1 .. Len(s) : s[i] = s[j] => i = j

\* C13: the image identity cache never holds more than 16 ids; a
\* cached_image call that finds its id, or that inserts it, makes it the most
\* recently used and keeps the order of the others; an insertion into a cache
\* of 16 evicts exactly the id at the least recently used end, and nothing
\* else is ever evicted.
C13_LruBound ==
    /\ [](/\ Cardinality(DOMAIN image_cache.map) <= 16
          /\ Len(image_cache.order) = Cardinality(DOMAIN image_cache.map)
          /\ IsInjective(image_cache.order)
          /\ \A i \in 1 .. Len(image_cache.order) :
                image_cache.order[i] \in DOMAIN image_cache.map)
    /\ [][last'.op = "cached_image"
          => LET id == last'.id
                 known == id \in DOMAIN image_cache.map
                 full == Cardinality(DOMAIN image_cache.map) = 16
                 oldest == image_cache.order[Len(image_cache.order)]
             IN  /\ (known \/ last'.ok)
                      => /\ image_cache'.order[1] = id
                         /\ SeqRemove(image_cache'.order, id)
                              = SelectSeq(SeqRemove(image_cache.order, id),
                                          LAMBDA x : x \notin last'.evicted)
                 /\ (~known /\ ~last'.ok) => image_cache' = image_cache
                 /\ last'.evicted = IF ~known /\ last'.ok /\ full
                                    THEN {oldest} ELSE {}]_vars
    /\ [][last'.op # "cached_image" => image_cache' = image_cache]_vars

C13_Witness ==
    /\ last.op = "cached_image"
    /\ last.ok
    /\ last.id = 2
    /\ last.evicted = {101}
    /\ image_cache.order[1] = 2
    /\ image_cache.order[2] = 1
    /\ Cardinality(DOMAIN image_cache.map) = 16

CellPixels == (0 .. arg.w - 1) \X (0 .. arg.h - 1)

\* C14: for Upper(4) and every even cell height h, the buffer block_sprite
\* draws is the whole cell, rows 0 .. h/2 - 1 opaque white across the full
\* width and rows h/2 .. h - 1 transparent.
C14_UpperHalf ==
    (/\ res.done
     /\ arg.fn = "block_sprite"
     /\ arg.block.key = "Upper"
     /\ arg.block.n = 4
     /\ arg.h % 2 = 0)
    => /\ res.outcome = "ok"
       /\ DOMAIN res.buffer = CellPixels
       /\ \A p \in CellPixels :
             res.buffer[p] = IF p[2] < arg.h \div 2 THEN White ELSE Black

C14_Witness ==
    /\ res.done
    /\ arg.fn = "block_sprite"
    /\ arg.block.key = "Upper"
    /\ arg.block.n = 4
    /\ arg.h = 12
    /\ arg.w = 3
    /\ res.buffer[<<2, 5>>] = White
    /\ res.buffer[<<0, 6>>] = Black

\* C15: for Lower(n), n in 1..7, and every cell height h divisible by 8, the
\* buffer block_sprite draws has rows h - n*h/8 .. h - 1 opaque, the last row
\* h - 1 included, and every row above them transparent.
C15_LowerEighths ==
    (/\ res.done
     /\ arg.fn = "block_sprite"
     /\ arg.block.key = "Lower"
     /\ arg.block.n \in 1 .. 7
     /\ arg.h % 8 = 0)
    => /\ res.outcome = "ok"
       /\ \A p \in CellPixels :
             res.buffer[p] = IF p[2] >= arg.h - arg.block.n * (arg.h \div 8)
                             THEN White ELSE Black

QuadrantOf(p, w, h) ==
    IF p[2] < (h + 1) \div 2
    THEN IF p[1] < (w + 1) \div 2 THEN "UPPER_LEFT" ELSE "UPPER_RIGHT"
    ELSE IF p[1] < (w + 1) \div 2 THEN "LOWER_LEFT" ELSE "LOWER_RIGHT"

\* C16: for Quadrants(Q) and every cell of width and height at least 2, a
\* pixel of the buffer block_sprite draws is opaque exactly when the quadrant
\* holding it, the cell being split at column ceil(w/2) and row ceil(h/2), is
\* in Q; every one of the four quadrants holds at least one pixel.
C16_Quadrants ==
    (/\ res.done
     /\ arg.fn = "block_sprite"
     /\ arg.block.key = "Quadrants"
     /\ arg.w >= 2
     /\ arg.h >= 2)
    => /\ res.outcome = "ok"
       /\ DOMAIN res.buffer = CellPixels
       /\ \A p \in CellPixels :
             res.buffer[p] = IF QuadrantOf(p, arg.w, arg.h) \in arg.block.quads
                             THEN White ELSE Black
       /\ \A q \in Quadrants :
             \E p \in CellPixels : QuadrantOf(p, arg.w, arg.h) = q

C16_Witness ==
    /\ res.done
    /\ arg.fn = "block_sprite"
    /\ arg.block.key = "Quadrants"
    /\ arg.block.quads = {"UPPER_LEFT", "LOWER_RIGHT"}
    /\ arg.w = 3
    /\ arg.h = 5
    /\ res.buffer[<<1, 2>>] = White
    /\ res.buffer[<<2, 3>>] = White
    /\ res.buffer[<<2, 2>>] = Black
    /\ res.buffer[<<1, 3>>] = Black

\* the positions along the stroke's thickness (rows of a horizontal stroke,
\* columns of a vertical one) at which the whole length of the cell is white
StrokeAt ==
    IF arg.key \in {"LightHorizontal", "HeavyHorizontal"}
    THEN {y \in 0 .. arg.h - 1 : \A x \in 0 .. arg.w - 1 : res.buffer[<<x, y>>] = White}
    ELSE {x \in 0 .. arg.w - 1 : \A y \in 0 .. arg.h - 1 : res.buffer[<<x, y>>] = White}

\* C17: for every underline thickness t >= 1 the Light box-drawing strokes
\* are exactly t pixels thick and the Heavy ones exactly 2t, never empty,
\* spanning the full cell and straddling its midline; nothing else is drawn.
C17_StrokeThickness ==
    (res.done /\ arg.fn = "box_drawing_sprite")
    => LET thick == IF arg.key \in {"LightHorizontal", "LightVertical"}
                    THEN arg.t ELSE 2 * arg.t
           mid == IF arg.key \in {"LightHorizontal", "HeavyHorizontal"}
                  THEN arg.h \div 2 ELSE arg.w \div 2
       IN  /\ Cardinality(StrokeAt) = thick
           /\ StrokeAt # {}
           /\ \A a, b \in StrokeAt : \A c \in a .. b : c \in StrokeAt
           /\ \E a \in StrokeAt : a \in {mid - 1, mid}
           /\ \A p \in CellPixels :
                 res.buffer[p] = White
                   => (IF arg.key \in {"LightHorizontal", "HeavyHorizontal"}
                       THEN p[2] ELSE p[1]) \in StrokeAt

EighthsInRange ==
    (res.key.tag = "Block" /\ res.key.block.key \in {"Upper", "Lower", "Left", "Right"})
        => res.key.block.n \in 1 .. 7

\* C18, with the whole box-drawing range decoded: from_char maps every
\* codepoint in 0x2500-0x257F to a BoxDrawing variant, every codepoint in 0x2580-0x259F to a Block variant
\* and every other codepoint to no key; the eighths of Upper, Lower, Left
\* and Right are in 1..7.
C18_RangesAsClaimed ==
    (res.done /\ arg.fn = "from_char")
    => /\ arg.c \in 9472 .. 9599 => res.key.tag = "BoxDrawing"
       /\ arg.c \in 9600 .. 9631 => res.key.tag = "Block"
       /\ arg.c \notin 9472 .. 9631 => res.key.tag = "None"
       /\ EighthsInRange

\* C18, with the four box-drawing variants decoded: from_char maps 0x2500,
\* 0x2501, 0x2502, 0x2503 to the BoxDrawing variants LightHorizontal, HeavyHorizontal, LightVertical,
\* HeavyVertical, every codepoint in 0x2580-0x259F to a Block variant, and
\* every other codepoint, 0x2504-0x257F included, to no key; the eighths of
\* Upper, Lower, Left and Right are in 1..7.
C18_CharDecoding ==
    (res.done /\ arg.fn = "from_char")
    => /\ arg.c \in 9472 .. 9475
            => /\ res.key.tag = "BoxDrawing"
               /\ res.key.box = <<"LightHorizontal", "HeavyHorizontal",
                                  "LightVertical", "HeavyVertical">>[arg.c - 9471]
       /\ arg.c \in 9476 .. 9599 => res.key.tag = "None"
       /\ arg.c \in 9600 .. 9631 => res.key.tag = "Block"
       /\ arg.c \notin 9472 .. 9631 => res.key.tag = "None"
       /\ EighthsInRange

C18_Witness ==
    /\ res.done
    /\ arg.fn = "from_char"
    /\ arg.c = 9609
    /\ res.key.tag = "Block"
    /\ res.key.block = Left(7)

\* C19: a cached_image call at instant now for an image cached as Animation
\* moves to frame (current_frame + 1) mod frame_count and sets frame_start to
\* now when now >= frame_start + duration(current_frame), and leaves
\* current_frame and frame_start as they are otherwise, whether or not the
\* call then succeeds.
C19_AdvanceRule ==
    [][(/\ last'.op = "cached_image"
        /\ last'.id \in DOMAIN image_cache.map
        /\ image_cache.map[last'.id].tag = "Animation")
       => LET old == image_cache.map[last'.id]
              new == image_cache'.map[last'.id]
              count == Len(old.frames)
              elapsed == now >= old.frame_start
                                  + old.frames[old.current_frame + 1].duration
          IN  /\ new.tag = "Animation"
              /\ new.frames = old.frames
              /\ elapsed => /\ new.current_frame = (old.current_frame + 1) % count
                            /\ new.current_frame # old.current_frame
                            /\ new.frame_start = now
              /\ ~elapsed => /\ new.current_frame = old.current_frame
                             /\ new.frame_start = old.frame_start
              /\ last'.advanced <=> elapsed]_vars

C19_Witness ==
    /\ last.op = "cached_image"
    /\ last.id = 1
    /\ last.advanced
    /\ last.path = "anim_hit"
    /\ image_cache.map[1].current_frame = 0
    /\ image_cache.map[1].frame_start = now
    /\ now >= 6

\* C20: after every successful cached_image call that leaves its image
\* cached as Animation, the next-due-instant returned is the entry's
\* frame_start plus the duration of its current frame, on the path that found
\* the frame's sprite as on the paths that allocated it, and is not earlier
\* than the instant of the call.
C20_NextDue ==
    (/\ last.op = "cached_image"
     /\ last.ok
     /\ last.id \in DOMAIN image_cache.map
     /\ image_cache.map[last.id].tag = "Animation")
    => LET e == image_cache.map[last.id]
       IN  /\ last.next # NoInstant
           /\ last.next = e.frame_start + e.frames[e.current_frame + 1].duration
           /\ last.next >= now
           /\ due[last.id] = last.next
           /\ last.path \in {"miss", "anim_hit", "anim_alloc"}
           /\ frame_cache[<<last.id, e.current_frame>>] = last.sprite

C20_Witness ==
    /\ last.op = "cached_image"
    /\ last.ok
    /\ last.id = 8
    /\ last.path = "anim_alloc"
    /\ last.advanced
    /\ image_cache.map[8].current_frame = 1
    /\ last.next = now
    /\ now > 0

\* C21: every Animation entry of the identity cache has a non-empty frame
\* list and a current_frame within it, and no cached_image call indexes a
\* frame list out of bounds, whatever frame list the decoder produced.
C21_FrameIndexValid ==
    /\ \A id \in DOMAIN image_cache.map :
          image_cache.map[id].tag = "Animation"
             => /\ Len(image_cache.map[id].frames) >= 1
                /\ image_cache.map[id].current_frame \in
                       0 .. Len(image_cache.map[id].frames) - 1
    /\ last.op = "cached_image" => last.outcome # "panic"

Keeps(old, new) == \A k \in DOMAIN old : k \in DOMAIN new /\ new[k] = old[k]

\* C22: every operation other than clear() leaves each key of the glyph
\* cache, the line-sprite cache and the custom-glyph cache present and mapped
\* to the value it had, and adds at most the key it was called with; clear()
\* empties the three caches together.
C22_WriteOnce ==
    /\ [][last'.op # "clear"
          => /\ Keeps(glyph_cache, glyph_cache')
             /\ Keeps(line_glyphs, line_glyphs')
             /\ Keeps(custom_glyphs, custom_glyphs')
             /\ Cardinality(DOMAIN glyph_cache') + Cardinality(DOMAIN line_glyphs')
                  + Cardinality(DOMAIN custom_glyphs')
                <= Cardinality(DOMAIN glyph_cache) + Cardinality(DOMAIN line_glyphs)
                     + Cardinality(DOMAIN custom_glyphs) + 1]_vars
    /\ [][last'.op = "clear"
          => /\ glyph_cache' = EmptyMap
             /\ line_glyphs' = EmptyMap
             /\ custom_glyphs' = EmptyMap]_vars

C22_Witness ==
    /\ last.op = "cached_custom_glyph"
    /\ last.hit
    /\ last.sprite = custom_glyphs[last.key]
    /\ glyph_cache # EmptyMap
    /\ line_glyphs # EmptyMap
    /\ atlas.left > 0

\* the (strike, effective underline, overline) triple of the last call
LastTriple(l) ==
    [strike_through |-> l.strike,
     underline |-> IF ~l.highlight THEN l.underline
                   ELSE IF l.underline = "Single" THEN "Double" ELSE "Single",
     overline |-> l.overline]

SpritesOf(m) == {m[k] : k \in DOMAIN m}

\* C23: a cached_line_sprite call whose (effective underline, strike,
\* overline) triple was already resolved since the last clear() returns the
\* sprite of that triple without allocating, whatever its highlight flag and
\* raw underline are; a call with a new triple allocates once and gets a
\* sprite no other triple has.
C23_LineKeySharing ==
    /\ [](/\ \A k \in DOMAIN hist.line_allocs : hist.line_allocs[k] <= 1
          /\ \A j, k \in DOMAIN line_glyphs :
                line_glyphs[j] = line_glyphs[k] => j = k)
    /\ [][last'.op = "cached_line_sprite"
          => LET t == LastTriple(last')
             IN  IF t \in DOMAIN line_glyphs
                 THEN /\ last'.ok
                      /\ last'.sprite = line_glyphs[t]
                      /\ atlas' = atlas
                      /\ line_glyphs' = line_glyphs
                 ELSE IF last'.ok
                 THEN /\ last'.sprite \notin SpritesOf(line_glyphs)
                      /\ atlas'.next = atlas.next + 1
                      /\ line_glyphs' = MapPut(line_glyphs, t, last'.sprite)
                 ELSE /\ line_glyphs' = line_glyphs
                      /\ atlas' = atlas]_vars

C23_Witness ==
    /\ last.op = "cached_line_sprite"
    /\ last.hit
    /\ last.highlight
    /\ last.underline = "None"
    /\ last.strike
    /\ hist.line_made_by[last.key] = <<FALSE, "Single">>
    /\ LineKey(FALSE, "Single", FALSE) \in DOMAIN line_glyphs
    /\ line_glyphs[LineKey(FALSE, "Single", FALSE)] # last.sprite

\* C24: every cached glyph that has a sprite stores scale exactly 1.0: its
\* image was resampled exactly when the chosen scale was not 1.0, and its
\* bearings and offsets are the rasterized values times the chosen scale;
\* a stored scale other than 1.0 is found only on sprite-less whitespace
\* glyphs.
C24_StoredScale ==
    /\ \A k \in DOMAIN glyph_cache :
          /\ glyph_cache[k].texture # NoSprite => glyph_cache[k].scale = FOne
          /\ glyph_cache[k].scale # FOne => glyph_cache[k].texture = NoSprite
    /\ (last.op = "cached_glyph" /\ ~last.hit /\ last.ok)
          => IF last.result.texture # NoSprite
             THEN /\ last.result.scale = FOne
                  /\ last.resampled <=> (last.scale # FOne)
                  /\ last.result.bearing_x = FMul(F(last.raster.bearing_x), last.scale)
                  /\ last.result.bearing_y = FMul(F(last.raster.bearing_y), last.scale)
                  /\ last.result.x_offset = FMul(F(last.info.x_offset), last.scale)
                  /\ last.result.y_offset = FMul(F(last.info.y_offset), last.scale)
             ELSE /\ last.raster.width = 0 \/ last.raster.height = 0
                  /\ ~last.resampled
                  /\ last.allocs = 0

C24_Witness ==
    /\ last.op = "cached_glyph"
    /\ ~last.hit
    /\ last.ok
    /\ last.result.texture # NoSprite
    /\ last.scale # FOne
    /\ last.resampled
    /\ last.result.scale = FOne
    /\ last.result.bearing_x # F(last.raster.bearing_x)
    /\ \E k \in DOMAIN glyph_cache :
          glyph_cache[k].texture = NoSprite /\ glyph_cache[k].scale # FOne

\* C25: no operation other than clear() removes a frame-cache entry: an LRU
\* eviction from the identity cache leaves the frame sprites of the evicted
\* image in place, so the frame cache can hold sprites of images the identity
\* cache no longer knows and of more images than its capacity.
C25_FramesOutliveEviction ==
    [][/\ last'.op # "clear" => DOMAIN frame_cache \subseteq DOMAIN frame_cache'
       /\ last'.op = "clear" => frame_cache' = EmptyMap
       /\ last'.op = "cached_image"
             => \A id \in last'.evicted :
                   /\ id \in DOMAIN image_cache.map
                   /\ id \notin DOMAIN image_cache'.map
                   /\ \A k \in DOMAIN frame_cache :
                         k[1] = id => /\ k \in DOMAIN frame_cache'
                                      /\ frame_cache'[k] = frame_cache[k]]_vars

C25_Witness ==
    /\ last.op = "cached_image"
    /\ last.evicted # {}
    /\ \A id \in last.evicted :
          id \notin DOMAIN image_cache.map /\ <<id, 0>> \in DOMAIN frame_cache
    /\ Cardinality(DOMAIN image_cache.map) = LruCapacity
    /\ Cardinality({k[1] : k \in DOMAIN frame_cache}) > LruCapacity

\* C26: a GIF whose multi-frame decode fails is decoded as a single frame of
\* the same source: if that succeeds the id is stored as SingleFrame and its
\* frame 0 is the real image; the placeholder is used only if the
\* single-frame decode fails too.
C26_GifFallback ==
    /\ \A id \in DOMAIN image_cache.map :
          (ImageFile(id).format = "gif" /\ ~ImageFile(id).multi_ok)
             => image_cache.map[id].tag = "SingleFrame"
    /\ (/\ last.op = "cached_image"
        /\ last.path = "miss"
        /\ ImageFile(last.id).format = "gif")
          => /\ last.image = "frame" <=> ImageFile(last.id).multi_ok
             /\ last.image = "single"
                   <=> ~ImageFile(last.id).multi_ok /\ ImageFile(last.id).single_ok
             /\ last.image = "placeholder"
                   <=> ~ImageFile(last.id).multi_ok /\ ~ImageFile(last.id).single_ok
             /\ (last.ok /\ ~ImageFile(last.id).multi_ok)
                   => /\ image_cache.map[last.id].tag = "SingleFrame"
                      /\ frame_cache[<<last.id, 0>>] = last.sprite
                      /\ last.next = NoInstant

C26_Witness ==
    /\ last.op = "cached_image"
    /\ last.id = 4
    /\ last.ok
    /\ last.path = "miss"
    /\ last.image = "single"
    /\ image_cache.map[4].tag = "SingleFrame"
    /\ 5 \in DOMAIN image_cache.map

FrameCount(id) == Len(ImageFile(id).frames)

\* C27, for every image id once it has been resolved as an animation: the
\* frame the image is on changes only in a cached_image call for that id, and
\* only from f to (f + 1) mod frame_count; clear() never changes it.
C27_FrameOrder ==
    [][/\ \A id \in DOMAIN shown :
             \/ shown'[id] = shown[id]
             \/ /\ last'.op = "cached_image"
                /\ last'.id = id
                /\ shown'[id] = (shown[id] + 1) % FrameCount(id)
       /\ last'.op = "clear" => image_cache' = image_cache]_vars

\* C27, for an image id for as long as its entry stays in the identity cache:
\* current_frame changes only in a cached_image call for that id, and only
\* from f to (f + 1) mod frame_count, one frame per call however much time
\* has elapsed; clear() never changes it.  An id that was evicted and is
\* resolved again starts over at frame 0.
C27_FrameOrderWhileCached ==
    [][/\ \A id \in DOMAIN image_cache.map \cap DOMAIN image_cache'.map :
             image_cache.map[id].tag = "Animation"
                => /\ image_cache'.map[id].tag = "Animation"
                   /\ image_cache'.map[id].frames = image_cache.map[id].frames
                   /\ \/ image_cache'.map[id].current_frame
                            = image_cache.map[id].current_frame
                      \/ /\ last'.op = "cached_image"
                         /\ last'.id = id
                         /\ last'.advanced
                         /\ image_cache'.map[id].current_frame
                               = (image_cache.map[id].current_frame + 1)
                                    % Len(image_cache.map[id].frames)
       /\ last'.op = "clear" => image_cache' = image_cache
       /\ \A id \in DOMAIN image_cache'.map \ DOMAIN image_cache.map :
             /\ last'.op = "cached_image"
             /\ last'.id = id
             /\ last'.path = "miss"
             /\ image_cache'.map[id].current_frame = 0]_vars

C27_Witness ==
    /\ last.op = "cached_image"
    /\ last.id = 1
    /\ last.advanced
    /\ image_cache.map[1].current_frame = 2
    /\ image_cache.map[1].frame_start = 6
    /\ image_cache.map[1].decoded_at = 0

AllFramesCached(id) ==
    /\ id \in DOMAIN image_cache.map
    /\ \A f \in 0 .. Len(image_cache.map[id].frames) - 1 :
          <<id, f>> \in DOMAIN frame_cache

\* C28: with a caller that keeps calling cached_image for the animation while
\* time keeps passing and allocations succeed, every frame index is the
\* current frame again and again, and once every frame has a sprite a call
\* for the image allocates nothing.
C28_AnimationProgress ==
    /\ \A f \in 0 .. FrameCount(1) - 1 :
          []<>(/\ 1 \in DOMAIN image_cache.map
               /\ image_cache.map[1].current_frame = f
               /\ last.op = "cached_image"
               /\ last.ok)
    /\ [][(AllFramesCached(1) /\ last'.op = "cached_image")
             => /\ last'.ok
                /\ last'.allocated = {}
                /\ atlas' = atlas
                /\ frame_cache' = frame_cache]_vars

C28_Witness ==
    /\ last.op = "cached_image"
    /\ last.path = "anim_hit"
    /\ last.advanced
    /\ AllFramesCached(1)
    /\ image_cache.map[1].current_frame = 0
    /\ frame_cache[<<1, 0>>] = 3
    /\ now = MaxTime
    /\ image_cache.map[1].decoded_at = 0

\* an id the identity cache still knows while the frame cache holds none of
\* its sprites: the state clear() leaves a resolved image in
LostSprites(id) ==
    /\ id \in DOMAIN image_cache.map
    /\ \A k \in DOMAIN frame_cache : k[1] # id

\* the frame an animation entry is on after a call at instant t
FrameAfterCall(entry, t) ==
    IF /\ Len(entry.frames) > 1
       /\ t >= entry.frame_start + entry.frames[entry.current_frame + 1].duration
    THEN (entry.current_frame + 1) % Len(entry.frames)
    ELSE entry.current_frame

\* what a successful call for an id in the state LostSprites does
ResolvedAfresh ==
    /\ last'.sprite = atlas.next
    /\ last'.sprite \notin SpritesOf(frame_cache)
    /\ IF image_cache.map[last'.id].tag = "SingleFrame"
       THEN /\ last'.path = "miss"
            /\ last'.image \in {"single", "placeholder"}
            /\ frame_cache' = MapPut(frame_cache, <<last'.id, 0>>, last'.sprite)
            /\ last'.next = NoInstant
            /\ image_cache'.map[last'.id].tag = "SingleFrame"
       ELSE LET f == FrameAfterCall(image_cache.map[last'.id], now)
            IN  /\ last'.path = "anim_alloc"
                /\ image_cache'.map[last'.id].frames
                      = image_cache.map[last'.id].frames
                /\ image_cache'.map[last'.id].decoded_at
                      = image_cache.map[last'.id].decoded_at
                /\ image_cache'.map[last'.id].current_frame = f
                /\ frame_cache' = MapPut(frame_cache, <<last'.id, f>>, last'.sprite)
                /\ last'.next # NoInstant

\* C29: the first cached_image call after clear() for an id still in the
\* identity cache succeeds with a freshly allocated sprite: a SingleFrame id
\* is decoded again and gets (id, 0) back, an Animation id is not decoded again
\* and gets the sprite of the frame it is on after the usual advance.
C29_AfterClear ==
    [][(last'.op = "cached_image" /\ LostSprites(last'.id))
          => last'.ok /\ ResolvedAfresh]_vars

\* C29, where the atlas has room for the image: the first cached_image call
\* after clear() for an id still in the identity cache returns a freshly
\* allocated sprite, of (id, 0) after decoding again for a SingleFrame id, of
\* the frame it is on after the usual advance and without decoding for an
\* Animation id; where the atlas has no room, the call fails and caches
\* nothing.
C29_AfterClearWithRoom ==
    [][(last'.op = "cached_image" /\ LostSprites(last'.id))
          => IF last'.fits /\ atlas.left > 0
             THEN last'.ok /\ ResolvedAfresh
             ELSE /\ ~last'.ok
                  /\ last'.outcome = "err"
                  /\ frame_cache' = frame_cache
                  /\ atlas' = atlas]_vars

C29_Witness ==
    /\ last.op = "cached_image"
    /\ last.id = 1
    /\ last.ok
    /\ last.path = "anim_alloc"
    /\ ~last.advanced
    /\ image_cache.map[1].current_frame = 2
    /\ DOMAIN frame_cache = {<<4, 0>>, <<1, 2>>}
    /\ frame_cache[<<4, 0>>] = 1
    /\ frame_cache[<<1, 2>>] = last.sprite
    /\ hist.frame_allocs[<<4, 0>>] = 1

Tags(ic) == [id \in DOMAIN ic.map |-> ic.map[id].tag]

\* C30: a cached_image call whose atlas allocation fails, on the full-miss
\* path or on the animation path, returns the error, and the frame cache and
\* the identity cache hold the same entries with the same tags as before it;
\* a call fails this way exactly when it has to allocate and the atlas has
\* no room.
C30_AllocationFailure ==
    [][last'.op = "cached_image"
          => /\ last'.outcome = "err"
                   <=> /\ last'.path \in {"miss", "anim_alloc"}
                       /\ ~(last'.fits /\ atlas.left > 0)
             /\ last'.outcome = "err"
                   => /\ ~last'.ok
                      /\ last'.sprite = NoSprite
                      /\ frame_cache' = frame_cache
                      /\ Tags(image_cache') = Tags(image_cache)
                      /\ atlas' = atlas
                      /\ due' = due]_vars

C30_Witness ==
    /\ last.op = "cached_image"
    /\ last.outcome = "err"
    /\ last.path = "anim_alloc"
    /\ last.advanced
    /\ last.fits
    /\ atlas.left = 0
    /\ 4 \notin DOMAIN image_cache.map
    /\ <<last.id, image_cache.map[last.id].current_frame>> \notin DOMAIN frame_cache

====
